---- MODULE Spec2Model ----
(***************************************************************************)
(* A model of topcat: the stable topological sort (src/src/stable_topo.rs), *)
(* the graph orchestrator TCGraph (src/src/file_dag.rs) and the header      *)
(* parser FileNode::from_file (src/src/file_node.rs).                       *)
(*                                                                         *)
(* Conventions.  A NodeIndex k of petgraph is the position k+1 of the      *)
(* sequence `nodes` of a graph; None is the index 0.  A String is the      *)
(* sequence of its character codes (1 is 'a', 2 is 'b'), compared as Rust  *)
(* compares strings, lexicographically.                                    *)
(***************************************************************************)
EXTENDS Naturals, Sequences, FiniteSets, TLC

VARIABLES
    tgraph,     \* the graph handed to StableTopo::new
    topo,       \* the StableTopo iterator: [ordered, tovisit]
    emitted,    \* the NodeIndex values next() has returned so far, in order
    exhausted,  \* next() has returned None at least once
    files,                  \* the candidate files: path -> parsed header block
    subdir_filter,          \* TCGraph.subdir_filter: <<>> is None, <<d>> is Some(d)
    include_node_prefixes,  \* TCGraph.include_node_prefixes, an Option likewise
    exclude_node_prefixes,  \* TCGraph.exclude_node_prefixes, an Option likewise
    name_map,               \* TCGraph.name_map: name -> FileNode
    path_map,               \* TCGraph.path_map: path -> FileNode
    graphs,                 \* prepend_graph, normal_graph, append_graph by layer
    index_maps,             \* prepend_/normal_/append_index_map by layer
    graph_is_built,         \* TCGraph.graph_is_built
    ret,                    \* the operation called last and what it returned
    builds,                 \* history: build_graph calls so far: 0, 1, 2 = several
    ever_ok,                \* history: some build_graph call has returned Ok
    comment_prefix,         \* TCGraph.comment_str, the configured --comment-prefix
    content,                \* the lines of the file from_file reads
    config_layers,          \* Config.layers, the layers handed to from_file
    fallback_layer,         \* the configured fallback layer
    parse_ret               \* what from_file returned for `content`, an Option

tvars == <<tgraph, topo, emitted, exhausted>>

cvars == <<files, subdir_filter, include_node_prefixes, exclude_node_prefixes>>

gvars == <<name_map, path_map, graphs, index_maps, graph_is_built>>

hvars == <<ret, builds, ever_ok>>

pvars == <<comment_prefix, content, config_layers, fallback_layer, parse_ret>>

vars == <<tvars, cvars, gvars, hvars, pvars>>

(***************************************************************************)
(* Strings and their order                                                 *)
(***************************************************************************)
RECURSIVE StrLt(_, _)
\* str::cmp(s, t) = Less: the lexicographic order on the character codes
StrLt(s, t) ==
    IF t = <<>> THEN FALSE
    ELSE IF s = <<>> THEN TRUE
    ELSE IF s[1] < t[1] THEN TRUE
    ELSE IF s[1] > t[1] THEN FALSE
    ELSE StrLt(Tail(s), Tail(t))

\* the node names of the model: "a", "ab", "b"
Names == {<<1>>, <<1, 2>>, <<2>>}

None == 0

RECURSIVE Orderings(_)
\* the orderings of a finite set as sequences without repetition
Orderings(S) ==
    IF S = {} THEN {<<>>}
    ELSE UNION {{<<x>> \o t : t \in Orderings(S \ {x})} : x \in S}

Range(f) == {f[i] : i \in DOMAIN f}

(***************************************************************************)
(* petgraph::Graph<N, (), Directed>                                        *)
(***************************************************************************)
\* Graph::new()
EmptyGraph == [nodes |-> <<>>, edges |-> <<>>]

\* Graph::add_node: the new node gets the next index
AddNode(g, w) == [g EXCEPT !.nodes = Append(@, w)]

\* Graph::add_edge(a, b, ()): parallel edges and self-loops are kept
AddEdge(g, a, b) == [g EXCEPT !.edges = Append(@, <<a, b>>)]

\* node_identifiers(): the indices in ascending order
NodeIdentifiers(g) == [i \in 1..Len(g.nodes) |-> i]

RECURSIVE EdgeWalk(_, _, _, _)
\* the far ends of the edges of `a`, the most recently added edge first, as
\* petgraph's per-node edge list yields them (from = 1: outgoing, 2: incoming)
EdgeWalk(edges, a, near, k) ==
    IF k = 0 THEN <<>>
    ELSE IF edges[k][near] = a
         THEN <<edges[k][3 - near]>> \o EdgeWalk(edges, a, near, k - 1)
         ELSE EdgeWalk(edges, a, near, k - 1)

\* graph.neighbors(a): the targets of a's outgoing edges
Neighbors(g, a) == EdgeWalk(g.edges, a, 1, Len(g.edges))

\* graph.neighbors_directed(a, Incoming) and Reversed(&graph).neighbors(a)
IncomingNeighbors(g, a) == EdgeWalk(g.edges, a, 2, Len(g.edges))

\* graph.node_weight(a)
NodeWeight(g, a) == g.nodes[a]

EdgeSet(g) == Range(g.edges)

RECURSIVE Descendants(_, _)
\* the nodes reachable from the set S by one or more edges
Descendants(g, S) ==
    LET step == S \cup {e[2] : e \in {d \in EdgeSet(g) : d[1] \in S}}
    IN  IF step = S THEN {e[2] : e \in {d \in EdgeSet(g) : d[1] \in S}}
        ELSE Descendants(g, step)

\* the nodes reachable from a by one or more edges
ReachablePlus(g, a) ==
    LET first == {e[2] : e \in {d \in EdgeSet(g) : d[1] = a}}
    IN  first \cup Descendants(g, first)

\* petgraph::algo::is_cyclic_directed: some directed cycle, a self-loop included
IsCyclicDirected(g) == \E a \in DOMAIN g.nodes : a \in ReachablePlus(g, a)

\* the names of a sequence of node indices
NamesOf(g, s) == [i \in DOMAIN s |-> NodeWeight(g, s[i])]

(***************************************************************************)
(* StableTopo                                                              *)
(***************************************************************************)
\* Ord on node weights: FileNode and &str both compare the name
WeightLt(g, a, b) == StrLt(NodeWeight(g, a), NodeWeight(g, b))

RECURSIVE InsertByWeight(_, _, _)
InsertByWeight(g, x, s) ==
    IF s = <<>> THEN <<x>>
    ELSE IF WeightLt(g, s[1], x)
         THEN <<s[1]>> \o InsertByWeight(g, x, Tail(s))
         ELSE <<x>> \o s

RECURSIVE SortByWeightMutant(_, _)
\* the mutant: a sort on the node index in place of the node weight
SortByWeightMutant(g, s) ==
    IF s = <<>> THEN <<>>
    ELSE LET m == CHOOSE x \in Range(s) : \A y \in Range(s) : x <= y
         IN  SelectSeq(s, LAMBDA y : y = m)
                 \o SortByWeightMutant(g, SelectSeq(s, LAMBDA y : y # m))

RECURSIVE SortByWeight(_, _)
\* v.sort_unstable_by(|a, b| weight(a).cmp(weight(b))): ascending by name
SortByWeight(g, s) ==
    IF s = <<>> THEN <<>>
    ELSE InsertByWeight(g, s[1], SortByWeight(g, Tail(s)))

\* the mutant: every node is taken for an initial node
IsInitialMutant(g, a) == TRUE

\* a node without incoming edges
IsInitial(g, a) == IncomingNeighbors(g, a) = <<>>

\* the mutant: tovisit gets the first initial node alone
ExtendWithInitialsMutant(g) ==
    LET initials == SelectSeq(NodeIdentifiers(g), LAMBDA a : IsInitial(g, a))
    IN  IF initials = <<>> THEN <<>> ELSE <<initials[1]>>

\* extend_with_initials: tovisit gets the initial nodes in index order
ExtendWithInitials(g) ==
    SelectSeq(NodeIdentifiers(g), LAMBDA a : IsInitial(g, a))

\* StableTopo::new
StableTopoNew(g) == [ordered |-> {}, tovisit |-> ExtendWithInitials(g)]

\* the mutant: a neighbour is taken as soon as one predecessor is ordered
ReadyMutant(g, ordered, neigh) == TRUE

\* all incoming neighbours of neigh are in `ordered`
Ready(g, ordered, neigh) ==
    \A k \in DOMAIN IncomingNeighbors(g, neigh) :
        IncomingNeighbors(g, neigh)[k] \in ordered

\* the mutant: the duplicate guard is missing
AlreadyOrderedMutant(ordered, nix) == FALSE

\* self.ordered.contains(&nix)
AlreadyOrdered(ordered, nix) == nix \in ordered

\* the mutant: the element is taken from the front of the vector
PopIndexMutant(tovisit) == 1

\* Vec::pop takes the last element of the vector
PopIndex(tovisit) == Len(tovisit)

RECURSIVE PopLoop(_, _, _)
\* the while-let loop of next() on the sorted tovisit
PopLoop(g, ordered, tovisit) ==
    IF tovisit = <<>>
    THEN [item |-> None, ordered |-> ordered, tovisit |-> <<>>]
    ELSE LET nix  == tovisit[PopIndex(tovisit)]
             rest == SubSeq(tovisit, 1, PopIndex(tovisit) - 1)
                         \o SubSeq(tovisit, PopIndex(tovisit) + 1, Len(tovisit))
         IN  IF AlreadyOrdered(ordered, nix)
             THEN PopLoop(g, ordered, rest)
             ELSE LET ord2 == ordered \cup {nix}
                      neighbors ==
                          SelectSeq(Neighbors(g, nix),
                                    LAMBDA neigh : Ready(g, ord2, neigh))
                  IN  [item    |-> nix,
                       ordered |-> ord2,
                       tovisit |-> rest \o SortByWeight(g, neighbors)]

\* StableTopo::next: the item returned (None = 0) and the iterator afterwards
StableTopoNext(g, st) == PopLoop(g, st.ordered, SortByWeight(g, st.tovisit))

RECURSIVE Collect(_, _)
\* the items of an iterator until it returns None
Collect(g, st) ==
    LET r == StableTopoNext(g, st)
    IN  IF r.item = None THEN <<>>
        ELSE <<r.item>> \o Collect(g, [ordered |-> r.ordered, tovisit |-> r.tovisit])

\* StableTopo::new(graph) followed by next() until None
TopoOrder(g) == Collect(g, StableTopoNew(g))

(***************************************************************************)
(* Files, headers and the configuration                                    *)
(***************************************************************************)
\* the layers in emission order: Prepend, Normal, Append
Layers == <<"prepend", "normal", "append">>

LayerSet == Range(Layers)

\* the position of a layer in the layer sequence
LayerIndex(l) == CHOOSE i \in DOMAIN Layers : Layers[i] = l

\* Option<T>
NoneOpt == <<>>

Some(x) == <<x>>

\* Result<T, TopCatError>: val holds the value or the error's fields
Ok(v) == [ok |-> TRUE, kind |-> "Ok", val |-> v]

Err(kind, args) == [ok |-> FALSE, kind |-> kind, val |-> args]

\* FileNode::new
FileNode(name, path, deps, layer, ensure_exists) ==
    [name |-> name, path |-> path, deps |-> deps, layer |-> layer,
     ensure_exists |-> ensure_exists]

\* the mutant: the error carries the first declared name twice
TooManyNamesMutant(path, name, second) ==
    Err("TooManyNames", <<path, <<name, name>>>>)

\* FileNodeError::TooManyNames(path.clone(), vec![name, second])
TooManyNames(path, name, second) ==
    Err("TooManyNames", <<path, <<name, second>>>>)

\* the mutant: the layer is not validated
LayerConfiguredMutant(layer, layer_set) == TRUE

\* layers.contains(&layer)
LayerConfigured(layer, layer_set) == layer \in layer_set

\* from_file once the header lines are read, for the configured layers: h.names
\* holds the name and, if a name directive followed it, that one's value;
\* h.deps the requires/dropped_by tokens, h.ensure_exists the exists tokens,
\* h.layer the resolved layer
CheckedHeader(path, h, layer_set) ==
    IF Len(h.names) >= 2
    THEN TooManyNames(path, h.names[1], h.names[2])
    ELSE IF h.names = <<>>
    THEN Err("NoNameDefined", <<path>>)
    ELSE IF ~LayerConfigured(h.layer, layer_set)
    THEN Err("InvalidLayer", <<path, h.layer>>)
    ELSE Ok(<<FileNode(h.names[1], path, h.deps, h.layer, h.ensure_exists)>>)

\* FileNode::from_file on a header block h, with the configured layers
FromFile(path, h) == CheckedHeader(path, h, Range(config_layers))

\* the arm of handle_file_node_error for InvalidLayer: fatal, carrying the
\* path and the layer
HandleInvalidLayer(e) == Err("InvalidLayer", e.val)

\* the mutant: a file without a name is fatal too
HandleFileNodeErrorMutant(e) ==
    IF e.kind = "InvalidLayer" THEN HandleInvalidLayer(e)
    ELSE Err("InvalidFileHeader", e.val)

\* handle_file_node_error: NoNameDefined is recovered from, the others are fatal
HandleFileNodeError(e) ==
    IF e.kind = "NoNameDefined" THEN Ok(<<>>)
    ELSE IF e.kind = "InvalidLayer" THEN HandleInvalidLayer(e)
    ELSE Err("InvalidFileHeader", e.val)

\* file_node.prepend / file_node.append: the node's layer graph
IsPrepend(n) == n.layer = "prepend"

IsAppend(n) == n.layer = "append"

\* Path::starts_with, component by component; String::starts_with likewise
StartsWith(s, p) == Len(p) <= Len(s) /\ SubSeq(s, 1, Len(p)) = p

(***************************************************************************)
(* FileNode::from_file on the lines of a file.  A line is the sequence of  *)
(* its characters, each a string of length one.  A name read off a line is *)
(* the sequence of its character codes, a layer read off a line is the     *)
(* string of its characters.                                               *)
(***************************************************************************)
\* char::is_whitespace
IsWhitespace(c) == c \in {" ", "\t"}

UpperCase == <<"A", "B", "C", "D", "E", "F", "G", "H", "I", "J", "K", "L", "M",
               "N", "O", "P", "Q", "R", "S", "T", "U", "V", "W", "X", "Y", "Z">>

LowerCase == <<"a", "b", "c", "d", "e", "f", "g", "h", "i", "j", "k", "l", "m",
               "n", "o", "p", "q", "r", "s", "t", "u", "v", "w", "x", "y", "z">>

\* char::to_lowercase of the upper case letters
LowerOf == [c \in Range(UpperCase) |-> LowerCase[CHOOSE k \in DOMAIN UpperCase : UpperCase[k] = c]]

\* str::to_lowercase, character by character
ToLowercase(s) ==
    [i \in DOMAIN s |-> IF s[i] \in DOMAIN LowerOf THEN LowerOf[s[i]] ELSE s[i]]

RECURSIVE TrimStart(_)
TrimStart(s) ==
    IF s # <<>> /\ IsWhitespace(s[1]) THEN TrimStart(Tail(s)) ELSE s

RECURSIVE TrimEnd(_)
TrimEnd(s) ==
    IF s # <<>> /\ IsWhitespace(s[Len(s)]) THEN TrimEnd(SubSeq(s, 1, Len(s) - 1)) ELSE s

\* str::trim
Trim(s) == TrimEnd(TrimStart(s))

RECURSIVE StringOf(_)
\* to_string() of a layer: the string of the characters
StringOf(s) == IF s = <<>> THEN "" ELSE s[1] \o StringOf(Tail(s))

\* the characters a lower-cased line of the model is made of: the letters,
\* then the others (no two names that are compared hold one of the others)
Alphabet == LowerCase \o <<" ", "\t", ",", ":", ";", "-", "_">>

\* the code of a character, 1 for 'a'
CodeOf == [c \in Range(Alphabet) |-> CHOOSE k \in DOMAIN Alphabet : Alphabet[k] = c]

\* to_string() of a name: the codes of its characters
CodesOf(s) == [i \in DOMAIN s |-> CodeOf[s[i]]]

\* line[prefix.len()..]
After(line, prefix) == SubSeq(line, Len(prefix) + 1, Len(line))

\* the mutant: the value is split on commas only
IsSeparatorMutant(c) == c = ","

\* the closure of split_dependencies: |c| c.is_whitespace() || c == ','
IsSeparator(c) == IsWhitespace(c) \/ c = ","

RECURSIVE Split(_, _)
\* str::split: the pieces between the separators, the empty ones included;
\* `piece` is the piece being read
Split(s, piece) ==
    IF s = <<>> THEN <<piece>>
    ELSE IF IsSeparator(s[1]) THEN <<piece>> \o Split(Tail(s), <<>>)
    ELSE Split(Tail(s), Append(piece, s[1]))

\* split_dependencies: the trimmed pieces that are not empty, in order
SplitDependencies(line) ==
    LET pieces  == Split(line, <<>>)
        trimmed == [i \in DOMAIN pieces |-> CodesOf(Trim(pieces[i]))]
    IN  SelectSeq(trimmed, LAMBDA x : x # <<>>)

\* the mutant: every line of the file that starts with the comment string or
\* is empty is taken, wherever it stands
TakeHeaderMutant(lines, comment_str) ==
    SelectSeq(lines, LAMBDA x : StartsWith(x, comment_str) \/ x = <<>>)

RECURSIVE TakeHeader(_, _)
\* the take_while of get_file_headers: the leading lines that start with the
\* comment string or are empty
TakeHeader(lines, comment_str) ==
    IF lines # <<>> /\ (StartsWith(lines[1], comment_str) \/ lines[1] = <<>>)
    THEN <<lines[1]>> \o TakeHeader(Tail(lines), comment_str)
    ELSE <<>>

\* get_file_headers: the header lines, the empty ones removed
GetFileHeaders(lines, comment_str) ==
    SelectSeq(TakeHeader(lines, comment_str), LAMBDA x : x # <<>>)

\* format!("{} name:", comment_str) and the other directive prefixes
NameStr(comment_str) == comment_str \o <<" ", "n", "a", "m", "e", ":">>

DepStr(comment_str) == comment_str \o <<" ", "r", "e", "q", "u", "i", "r", "e", "s", ":">>

DropStr(comment_str) ==
    comment_str \o <<" ", "d", "r", "o", "p", "p", "e", "d", "_", "b", "y", ":">>

LayerStr(comment_str) == comment_str \o <<" ", "l", "a", "y", "e", "r", ":">>

PrependStr(comment_str) ==
    comment_str \o <<" ", "i", "s", "_", "i", "n", "i", "t", "i", "a", "l">>

AppendStr(comment_str) == comment_str \o <<" ", "i", "s", "_", "f", "i", "n", "a", "l">>

EnsureExistsStr(comment_str) == comment_str \o <<" ", "e", "x", "i", "s", "t", "s", ":">>

\* the mutant: an empty layer value overrides the layer too
DeclaredLayerMutant(layer, declared_layer) == declared_layer

\* if !declared_layer.is_empty() { layer = declared_layer.to_string() }
DeclaredLayer(layer, declared_layer) ==
    IF declared_layer # "" THEN declared_layer ELSE layer

\* the body of the loop of from_file on one header line; h.names is empty
\* while `name` is the empty String, and holds the first name and the value of
\* the name directive after it once TooManyNames is to be returned
HeaderLine(h, unprocessed_line, comment_str) ==
    LET line == ToLowercase(Trim(unprocessed_line))
        value(prefix) == Trim(After(line, prefix))
        name_value == CodesOf(value(NameStr(comment_str)))
        items(prefix) == Range(SplitDependencies(After(line, prefix)))
    IN  IF StartsWith(line, NameStr(comment_str))
        THEN IF h.names = <<>>
             THEN [h EXCEPT !.names = IF name_value = <<>> THEN <<>> ELSE <<name_value>>]
             ELSE [h EXCEPT !.names = Append(@, name_value)]
        ELSE IF StartsWith(line, DepStr(comment_str))
        THEN [h EXCEPT !.deps = @ \cup items(DepStr(comment_str))]
        ELSE IF StartsWith(line, DropStr(comment_str))
        THEN [h EXCEPT !.deps = @ \cup items(DropStr(comment_str))]
        ELSE IF StartsWith(line, LayerStr(comment_str))
        THEN [h EXCEPT !.layer = DeclaredLayer(@, StringOf(value(LayerStr(comment_str))))]
        ELSE IF StartsWith(line, PrependStr(comment_str))
        THEN [h EXCEPT !.layer = "prepend"]
        ELSE IF StartsWith(line, AppendStr(comment_str))
        THEN [h EXCEPT !.layer = "append"]
        ELSE IF StartsWith(line, EnsureExistsStr(comment_str))
        THEN [h EXCEPT !.ensure_exists = @ \cup items(EnsureExistsStr(comment_str))]
        ELSE h

RECURSIVE HeaderLoop(_, _, _)
\* the loop of from_file over file_data; it is left at the second name
HeaderLoop(h, file_data, comment_str) ==
    IF file_data = <<>> \/ Len(h.names) >= 2 THEN h
    ELSE HeaderLoop(HeaderLine(h, file_data[1], comment_str), Tail(file_data),
                    comment_str)

\* the header block from_file reads off the lines of a file
ReadHeader(comment_str, lines, fallback) ==
    HeaderLoop([names |-> <<>>, layer |-> fallback, deps |-> {}, ensure_exists |-> {}],
               GetFileHeaders(lines, comment_str), comment_str)

\* FileNode::from_file(comment_str, path, layers, fallback_layer) for a file
\* with the given lines
FromFileLines(comment_str, path, lines, layer_seq, fallback) ==
    CheckedHeader(path, ReadHeader(comment_str, lines, fallback), Range(layer_seq))

(***************************************************************************)
(* TCGraph::build_graph                                                    *)
(***************************************************************************)
\* the mutant: a file that is registered already is registered again
ClashesOtherFileMutant(nm, node) ==
    node.name \in DOMAIN nm /\ nm[node.name].path # node.path

\* the mutant: a clashing name overwrites the registered node
ClashesMutant(nm, node) == FALSE

\* self.name_map.get(&file_node.name) is Some
Clashes(nm, node) == node.name \in DOMAIN nm

\* HashMap::insert
Insert(m, k, v) == [x \in DOMAIN m \cup {k} |-> IF x = k THEN v ELSE m[x]]

RECURSIVE RegisterFiles(_, _, _, _)
\* the loop over the filtered files of build_graph, the files met in `order`:
\* the first fatal error (err) or Ok, with the maps as the loop leaves them
RegisterFiles(order, k, nm, pm) ==
    IF k > Len(order) THEN [res |-> Ok(<<>>), name_map |-> nm, path_map |-> pm]
    ELSE LET parsed == FromFile(order[k], files[order[k]])
         IN  IF ~parsed.ok
             THEN IF HandleFileNodeError(parsed).ok
                  THEN RegisterFiles(order, k + 1, nm, pm)
                  ELSE [res |-> HandleFileNodeError(parsed),
                        name_map |-> nm, path_map |-> pm]
             ELSE LET node == parsed.val[1]
                  IN  IF Clashes(nm, node)
                      THEN [res |-> Err("NameClash",
                                        <<node.name, node.path, nm[node.name].path>>),
                            name_map |-> nm, path_map |-> pm]
                      ELSE RegisterFiles(order, k + 1,
                                         Insert(nm, node.name, node),
                                         Insert(pm, node.path, node))

\* the graph add_nodes_to_graphs puts a node into
GraphOf(n) ==
    IF IsPrepend(n) THEN "prepend" ELSE IF IsAppend(n) THEN "append" ELSE "normal"

RECURSIVE AddNodesToGraphs(_, _, _, _, _)
\* add_nodes_to_graphs, name_map.values() yielding the nodes in `vorder`; the
\* weight of a graph node is the FileNode, which its name identifies
AddNodesToGraphs(vorder, k, nm, gs, ims) ==
    IF k > Len(vorder) THEN [graphs |-> gs, index_maps |-> ims]
    ELSE LET n == nm[vorder[k]]
             l == GraphOf(n)
             g == AddNode(gs[l], n.name)
         IN  AddNodesToGraphs(vorder, k + 1, nm,
                              [gs EXCEPT ![l] = g],
                              [ims EXCEPT ![l] = Insert(@, n.name, Len(g.nodes))])

\* the mutant: the edge of a dependency is added twice
DepEdgeTwiceMutant(g, im, dep, name) ==
    AddEdge(AddEdge(g, im[dep], im[name]), im[dep], im[name])

\* the mutant: the edge runs from the dependent to the dependency
DepEdgeMutant(g, im, dep, name) == AddEdge(g, im[name], im[dep])

\* graph.add_edge(*index_map.get(dep).unwrap(), *index_map.get(name).unwrap(), ())
DepEdge(g, im, dep, name) == AddEdge(g, im[dep], im[name])

\* the mutant: a normal node may depend on normal nodes only
NormalDependsOnLaterMutant(dep_node) == IsAppend(dep_node) \/ IsPrepend(dep_node)

\* a normal node's dependency is in the append layer
NormalDependsOnLater(dep_node) == IsAppend(dep_node)

\* the body of the loop over file_node.deps: an error, or the graphs with the
\* edge of a same-layer dependency added
CheckDep(nm, n, dep, gs, ims) ==
    IF dep \notin DOMAIN nm
    THEN [res |-> Err("MissingDependency", <<n.name, dep>>), graphs |-> gs]
    ELSE LET dep_node == nm[dep]
             edge(l)  == [gs EXCEPT ![l] = DepEdge(gs[l], ims[l], dep, n.name)]
         IN  IF IsPrepend(n)
             THEN IF ~IsPrepend(dep_node)
                  THEN [res |-> Err("InvalidDependency", <<n.name, dep>>), graphs |-> gs]
                  ELSE [res |-> Ok(<<>>), graphs |-> edge("prepend")]
             ELSE IF IsAppend(n)
             THEN IF IsAppend(dep_node)
                  THEN [res |-> Ok(<<>>), graphs |-> edge("append")]
                  ELSE [res |-> Ok(<<>>), graphs |-> gs]
             ELSE IF NormalDependsOnLater(dep_node)
                  THEN [res |-> Err("InvalidDependency", <<n.name, dep>>), graphs |-> gs]
                  ELSE IF ~IsPrepend(dep_node)
                  THEN [res |-> Ok(<<>>), graphs |-> edge("normal")]
                  ELSE [res |-> Ok(<<>>), graphs |-> gs]

RECURSIVE DepsLoop(_, _, _, _, _)
\* the loop over file_node.deps, a HashSet iterated in any order: every way it
\* can end, as [res, graphs]
DepsLoop(nm, n, todo, gs, ims) ==
    IF todo = {} THEN {[res |-> Ok(<<>>), graphs |-> gs]}
    ELSE UNION {LET c == CheckDep(nm, n, dep, gs, ims)
                IN  IF c.res.ok
                    THEN DepsLoop(nm, n, todo \ {dep}, c.graphs, ims)
                    ELSE {c} : dep \in todo}

\* the mutant: the existence assertions are not looked at
EnsureLoopMutant(nm, n) == {}

\* the loop over file_node.ensure_exists, a HashSet iterated in any order: the
\* errors it can end with (none when every name is registered)
EnsureLoop(nm, n) ==
    {Err("MissingExist", <<n.name, ensure>>) :
         ensure \in {x \in n.ensure_exists : x \notin DOMAIN nm}}

RECURSIVE ValidateDependencies(_, _, _, _, _)
\* validate_dependencies, name_map.values() yielding the nodes in `vorder`:
\* every way it can end, as [res, graphs]
ValidateDependencies(vorder, k, nm, gs, ims) ==
    IF k > Len(vorder) THEN {[res |-> Ok(<<>>), graphs |-> gs]}
    ELSE LET n == nm[vorder[k]]
         IN  IF EnsureLoop(nm, n) # {}
             THEN {[res |-> e, graphs |-> gs] : e \in EnsureLoop(nm, n)}
             ELSE UNION {IF d.res.ok
                         THEN ValidateDependencies(vorder, k + 1, nm, d.graphs, ims)
                         ELSE {d} : d \in DepsLoop(nm, n, n.deps, gs, ims)}

\* the sequences of distinct node indices of g along which the edges of g close
\* a cycle: every rotation of every elementary cycle, a self-loop included
CycleRotations(g) ==
    LET n == Len(g.nodes)
    IN  {c \in UNION {[1..k -> 1..n] : k \in 1..n} :
            /\ \A i, j \in DOMAIN c : i # j => c[i] # c[j]
            /\ \A i \in DOMAIN c : <<c[i], c[(i % Len(c)) + 1]>> \in EdgeSet(g)}

\* the rotation of a cycle that starts at its smallest node index
StartsLowest(c) == \A i \in DOMAIN c : c[1] <= c[i]

\* graph.cycles() of the graph_cycles crate: every elementary cycle once, as the
\* sequence of its node indices; the crate fixes neither the order of the
\* cycles nor the node a cycle starts at, so every such list is an outcome
Cycles(g) ==
    LET canon == {c \in CycleRotations(g) : StartsLowest(c)}
        rotations(c) == {d \in CycleRotations(g) : Range(d) = Range(c) /\ Len(d) = Len(c)
                            /\ \E s \in DOMAIN c : \A i \in DOMAIN c :
                                   d[i] = c[((i + s - 2) % Len(c)) + 1]}
    IN  {cs \in UNION {[1..Cardinality(canon) -> CycleRotations(g)]} :
            \E o \in Orderings(canon) :
                \A i \in DOMAIN cs : cs[i] \in rotations(o[i])}

\* the mutant: the last node of the cycle is left out
ExtractCycleNodesMutant(cycle, g, nm) ==
    [k \in 1..(Len(cycle) - 1) |-> nm[NodeWeight(g, cycle[k])]]

\* extract_cycle_nodes: the FileNode of every index of the cycle, in its order
ExtractCycleNodes(cycle, g, nm) ==
    [k \in DOMAIN cycle |-> nm[NodeWeight(g, cycle[k])]]

\* convert_cycle_indexes_to_cycle_nodes: every cycle converted, in their order
ConvertCycleIndexesToCycleNodes(cycles, g, nm) ==
    [i \in DOMAIN cycles |-> ExtractCycleNodes(cycles[i], g, nm)]

\* the mutant: only the normal graph is checked for cycles
CycleCheckedLayersMutant == <<"normal">>

\* the graphs check_cyclic_dependencies looks at, in its order
CycleCheckedLayers == <<"prepend", "normal", "append">>

RECURSIVE CollectCyclesMutant(_, _, _)
\* the mutant: the detector stops at the first cyclic layer
CollectCyclesMutant(k, gs, nm) ==
    IF k > Len(CycleCheckedLayers) THEN {<<>>}
    ELSE LET g == gs[CycleCheckedLayers[k]]
         IN  IF IsCyclicDirected(g)
             THEN {ConvertCycleIndexesToCycleNodes(cs, g, nm) : cs \in Cycles(g)}
             ELSE CollectCyclesMutant(k + 1, gs, nm)

RECURSIVE CollectCycles(_, _, _)
\* the cycles of the layers from the k-th on, appended in every possible way
CollectCycles(k, gs, nm) ==
    IF k > Len(CycleCheckedLayers) THEN {<<>>}
    ELSE LET g == gs[CycleCheckedLayers[k]]
             here == IF IsCyclicDirected(g)
                     THEN {ConvertCycleIndexesToCycleNodes(cs, g, nm) : cs \in Cycles(g)}
                     ELSE {<<>>}
         IN  {h \o t : h \in here, t \in CollectCycles(k + 1, gs, nm)}

\* check_cyclic_dependencies: every result it can return
CheckCyclicDependencies(gs, nm) ==
    {IF cycles # <<>> THEN Err("CyclicDependency", <<cycles>>) ELSE Ok(<<>>) :
         cycles \in CollectCycles(1, gs, nm)}

\* Display of one cycle of a CyclicDependency: the participants (name, path) as
\* a HashSet holds them, the edges as the pairs of consecutive names, the pair
\* from the last node back to the first included
CycleReport(cycle) ==
    [participants |-> {<<cycle[i].name, cycle[i].path>> : i \in DOMAIN cycle},
     edges |-> [i \in DOMAIN cycle |->
                   <<cycle[i].name, cycle[(i % Len(cycle)) + 1].name>>]]

\* the mutant: the flag is set although the build failed
BuiltAfterErrorMutant(built) == TRUE

\* graph_is_built when build_graph returns an error: not assigned
BuiltAfterError(built) == built

\* build_graph from the current state: every way it can end, the files being
\* enumerated in any order and every hash map and hash set iterated in any order
BuildOutcomes ==
    LET registered == {RegisterFiles(order, 1, name_map, path_map) :
                           order \in Orderings(DOMAIN files)}
    IN  UNION {
            IF ~reg.res.ok
            THEN {[res |-> reg.res, name_map |-> reg.name_map, path_map |-> reg.path_map,
                   graphs |-> graphs, index_maps |-> index_maps,
                   built |-> BuiltAfterError(graph_is_built)]}
            ELSE UNION {
                LET added == AddNodesToGraphs(vorder, 1, reg.name_map, graphs, index_maps)
                IN  UNION {
                        IF ~v.res.ok
                        THEN {[res |-> v.res, name_map |-> reg.name_map,
                               path_map |-> reg.path_map, graphs |-> v.graphs,
                               index_maps |-> added.index_maps,
                               built |-> BuiltAfterError(graph_is_built)]}
                        ELSE {[res |-> c, name_map |-> reg.name_map,
                               path_map |-> reg.path_map, graphs |-> v.graphs,
                               index_maps |-> added.index_maps,
                               built |-> IF c.ok THEN TRUE
                                         ELSE BuiltAfterError(graph_is_built)] :
                                  c \in CheckCyclicDependencies(v.graphs, reg.name_map)}
                        : v \in ValidateDependencies(vorder, 1, reg.name_map,
                                                     added.graphs, added.index_maps)}
                : vorder \in Orderings(DOMAIN reg.name_map)}
            : reg \in registered}

(***************************************************************************)
(* TCGraph::get_sorted_files and TCGraph::graph_as_dot                     *)
(***************************************************************************)
\* the directories that exist; canonicalize fails on any other
ExistingDirs == {"d1", "d2", "d3"}

\* the mutant: the loop over the dependencies of a node stops after the first
DepsIterationMutant(deps) ==
    {IF order = <<>> THEN order ELSE <<order[1]>> : order \in Orderings(deps)}

\* the orders in which the loop over a HashSet of names may meet its elements
DepsIteration(deps) == Orderings(deps)

\* the mutant: a newly required dependency is not put on the queue
PushBackMutant(queue, dep_name) == queue

\* queue.push_back
PushBack(queue, dep_name) == Append(queue, dep_name)

RECURSIVE VisitDeps(_, _, _, _, _, _)
\* the loop over the deps of node_name, from the k-th of `order` on: a missing
\* dependency ends the search, a dependency not yet required is inserted into
\* `required` and put at the back of the queue
VisitDeps(nm, node_name, order, k, queue, required) ==
    IF k > Len(order) THEN Ok([queue |-> queue, required |-> required])
    ELSE IF order[k] \notin DOMAIN nm
    THEN Err("MissingDependency", <<node_name, order[k]>>)
    ELSE IF order[k] \in required
    THEN VisitDeps(nm, node_name, order, k + 1, queue, required)
    ELSE VisitDeps(nm, node_name, order, k + 1, PushBack(queue, order[k]),
                   required \cup {order[k]})

RECURSIVE FindRequiredNodes(_, _, _, _)
\* find_required_nodes from the state of its while loop on: the queue is worked
\* off from its front; the results over the iteration orders of the deps sets.
\* A result carries `required` and, for the record, the names popped in order.
FindRequiredNodes(nm, queue, required, popped) ==
    IF queue = <<>> THEN {Ok(<<required, popped>>)}
    ELSE LET node_name == Head(queue)
         IN  IF node_name \notin DOMAIN nm
             THEN {Err("UnknownError", <<node_name>>)}
             ELSE UNION {
                      LET v == VisitDeps(nm, node_name, order, 1, Tail(queue), required)
                      IN  IF ~v.ok THEN {v}
                          ELSE FindRequiredNodes(nm, v.val.queue, v.val.required,
                                                 Append(popped, node_name))
                      : order \in DepsIteration(nm[node_name].deps)}

\* the mutant: with include prefixes configured the exclude prefixes are not
\* looked at
PassesPrefixesMutant(name) ==
    IF include_node_prefixes # NoneOpt
    THEN \E p \in include_node_prefixes[1] : StartsWith(name, p)
    ELSE exclude_node_prefixes # NoneOpt =>
             ~\E p \in exclude_node_prefixes[1] : StartsWith(name, p)

\* the match on (include_node_prefixes, exclude_node_prefixes)
PassesPrefixes(name) ==
    /\ include_node_prefixes # NoneOpt =>
           \E p \in include_node_prefixes[1] : StartsWith(name, p)
    /\ exclude_node_prefixes # NoneOpt =>
           ~\E p \in exclude_node_prefixes[1] : StartsWith(name, p)

\* should_include of a node emitted by StableTopo
ShouldInclude(name, required_node_names) ==
    /\ required_node_names # NoneOpt => name \in required_node_names[1]
    /\ PassesPrefixes(name)

\* the mutant: the append graph is emitted before the normal graph
EmissionLayersMutant == <<"prepend", "append", "normal">>

\* the graphs get_sorted_files sorts, in its order
EmissionLayers == <<"prepend", "normal", "append">>

RECURSIVE SortedFrom(_, _)
\* the loop over the graph types from the k-th on: the paths pushed
SortedFrom(k, required_node_names) ==
    IF k > Len(EmissionLayers) THEN <<>>
    ELSE LET g == graphs[EmissionLayers[k]]
             kept == SelectSeq(NamesOf(g, TopoOrder(g)),
                               LAMBDA name : ShouldInclude(name, required_node_names))
         IN  [i \in DOMAIN kept |-> name_map[kept[i]].path]
                 \o SortedFrom(k + 1, required_node_names)

\* the nodes whose path lies under the subdirectory of the filter
InitialNodes ==
    {n \in DOMAIN name_map : StartsWith(name_map[n].path, subdir_filter)}

\* the results of find_required_nodes(&initial_nodes): the queue is collected
\* from the HashSet initial_nodes in any order
RequiredNodes ==
    UNION {FindRequiredNodes(name_map, queue, InitialNodes, <<>>) :
               queue \in Orderings(InitialNodes)}

\* the mutant: under a subdirectory filter the required nodes are listed in the
\* order in which find_required_nodes took them off its queue
GetSortedFilesResultsMutant ==
    IF ~graph_is_built THEN {Err("GraphMissing", <<>>)}
    ELSE IF subdir_filter = NoneOpt THEN {Ok(SortedFrom(1, NoneOpt))}
    ELSE IF subdir_filter[1] \notin ExistingDirs THEN {Err("Io", <<subdir_filter[1]>>)}
    ELSE IF InitialNodes = {} THEN {Ok(<<>>)}
    ELSE {IF found.ok
          THEN LET kept == SelectSeq(found.val[2], PassesPrefixes)
               IN  Ok([i \in DOMAIN kept |-> name_map[kept[i]].path])
          ELSE found : found \in RequiredNodes}

\* get_sorted_files: every result the iteration orders of its hash sets allow
GetSortedFilesResults ==
    IF ~graph_is_built THEN {Err("GraphMissing", <<>>)}
    ELSE IF subdir_filter = NoneOpt THEN {Ok(SortedFrom(1, NoneOpt))}
    ELSE IF subdir_filter[1] \notin ExistingDirs THEN {Err("Io", <<subdir_filter[1]>>)}
    ELSE IF InitialNodes = {} THEN {Ok(<<>>)}
    ELSE {IF found.ok THEN Ok(SortedFrom(1, Some(found.val[1]))) ELSE found :
              found \in RequiredNodes}

\* graph_as_dot: the graph of the layer, its nodes labelled with their names
GraphAsDotResult(graph_type) ==
    IF ~graph_is_built THEN Err("GraphMissing", <<>>)
    ELSE Ok(<<graphs[graph_type]>>)

(***************************************************************************)
(* The orchestrator as a state machine                                     *)
(***************************************************************************)
\* TCGraph::new: empty graphs and maps, the flag false
Constructed ==
    /\ name_map = <<>>
    /\ path_map = <<>>
    /\ graphs = [l \in LayerSet |-> EmptyGraph]
    /\ index_maps = [l \in LayerSet |-> <<>>]
    /\ graph_is_built = FALSE
    /\ ret = [op |-> "new", res |-> Ok(<<>>)]
    /\ builds = 0
    /\ ever_ok = FALSE

\* the default of --comment-prefix
CommentStr == <<"-", "-">>

\* the default configuration of the comment prefix and of the layers, and no
\* file read on its own
NothingParsed ==
    /\ comment_prefix = CommentStr
    /\ content = <<>>
    /\ config_layers = Layers
    /\ fallback_layer = "normal"
    /\ parse_ret = NoneOpt

\* build_graph, callable in every state; builds counts none, one, several
BuildGraph ==
    /\ \E o \in BuildOutcomes :
           /\ name_map' = o.name_map
           /\ path_map' = o.path_map
           /\ graphs' = o.graphs
           /\ index_maps' = o.index_maps
           /\ graph_is_built' = o.built
           /\ ret' = [op |-> "build_graph", res |-> o.res]
           /\ ever_ok' = (ever_ok \/ o.res.ok)
    /\ builds' = IF builds = 0 THEN 1 ELSE 2
    /\ UNCHANGED <<tvars, cvars, pvars>>

GetSortedFiles ==
    /\ \E res \in GetSortedFilesResults : ret' = [op |-> "get_sorted_files", res |-> res]
    /\ UNCHANGED <<tvars, cvars, gvars, builds, ever_ok, pvars>>

GraphAsDot ==
    /\ \E graph_type \in LayerSet :
           ret' = [op |-> "graph_as_dot", res |-> GraphAsDotResult(graph_type)]
    /\ UNCHANGED <<tvars, cvars, gvars, builds, ever_ok, pvars>>

Next == BuildGraph \/ GetSortedFiles \/ GraphAsDot


(***************************************************************************)
(* The inputs of the orchestrator                                          *)
(***************************************************************************)
MaxDirectives == 3

\* the file that declares a name first, and one more file
PathOf(n) ==
    IF n = <<1>> THEN <<"d1", "f1">>
    ELSE IF n = <<1, 2>> THEN <<"d1", "f2">>
    ELSE <<"d2", "f3">>

ExtraPath == <<"d2", "f4">>

RECURSIVE KSubsets(_, _)
\* the subsets of S of at most k elements
KSubsets(S, k) ==
    IF k = 0 THEN {{}}
    ELSE KSubsets(S, k - 1) \cup {T \cup {x} : T \in KSubsets(S, k - 1), x \in S}

\* the directives a header block may hold besides its first name directive: a
\* requires token, an exists token, a layer directive, a second name directive;
\* and "clash": the extra file declares the name too
Directives(named) ==
    ({"requires", "exists"} \X named \X Names)
        \cup ({"layer"} \X named \X {"prepend", "append"})
        \cup {<<k, n, n>> : k \in {"name", "clash"}, n \in named}

\* the sets of directives of a model input: at most MaxDirectives, at most one
\* layer directive per file and one clash
DirectiveSets(named) ==
    {x \in KSubsets(Directives(named), MaxDirectives) :
        /\ Cardinality({d \in x : d[1] = "clash"}) <= 1
        /\ \A d, e \in x : d[1] = "layer" /\ e[1] = "layer" /\ d[2] = e[2] => d = e}

\* the candidate files: the file of every name in `named` declares that name,
\* the file of any other name declares no name; a file without a layer
\* directive gets the fallback layer "normal"
FilesOf(named, ds) ==
    LET layers(n) == {d[3] : d \in {x \in ds : x[1] = "layer" /\ x[2] = n}}
        header(n) ==
            [names |-> IF n \notin named THEN <<>>
                       ELSE IF <<"name", n, n>> \in ds THEN <<n, n>> ELSE <<n>>,
             layer |-> IF layers(n) = {} THEN "normal" ELSE CHOOSE l \in layers(n) : TRUE,
             deps |-> {d[3] : d \in {x \in ds : x[1] = "requires" /\ x[2] = n}},
             ensure_exists |-> {d[3] : d \in {x \in ds : x[1] = "exists" /\ x[2] = n}}]
        clash == {d[2] : d \in {x \in ds : x[1] = "clash"}}
        extra(c) == [names |-> <<c>>, layer |-> "normal", deps |-> {},
                     ensure_exists |-> {}]
        paths == {PathOf(n) : n \in Names}
                     \cup (IF clash = {} THEN {} ELSE {ExtraPath})
    IN  [p \in paths |->
            IF p = ExtraPath THEN extra(CHOOSE c \in clash : TRUE)
            ELSE header(CHOOSE n \in Names : PathOf(n) = p)]

\* a TCGraph constructed on any of the inputs, no filter configured
Init ==
    /\ \E named \in SUBSET Names : \E ds \in DirectiveSets(named) :
           files = FilesOf(named, ds)
    /\ subdir_filter = NoneOpt
    /\ include_node_prefixes = NoneOpt
    /\ exclude_node_prefixes = NoneOpt
    /\ Constructed
    /\ NothingParsed
    /\ tgraph = EmptyGraph
    /\ topo = StableTopoNew(EmptyGraph)
    /\ emitted = <<>>
    /\ exhausted = FALSE

Spec == Init /\ [][Next]_vars

(***************************************************************************)
(* The orchestrator with its output filters configured                     *)
(***************************************************************************)
MaxFilterDirectives == 2

\* the directives of an input of the filtered orchestrator: requires tokens and
\* layer directives
FilterDirectives(named) ==
    ({"requires"} \X named \X Names)
        \cup ({"layer"} \X named \X {"prepend", "append"})

\* at most MaxFilterDirectives of them, at most one layer directive per file
FilterDirectiveSets(named) ==
    {x \in KSubsets(FilterDirectives(named), MaxFilterDirectives) :
        \A d, e \in x : d[1] = "layer" /\ e[1] = "layer" /\ d[2] = e[2] => d = e}

\* no subdirectory filter, a directory holding files, a directory holding
\* none, and a path that does not exist
SubdirFilters == {NoneOpt, Some("d1"), Some("d2"), Some("d3"), Some("d9")}

\* the include prefixes: none configured, "a", or "ab" and "b"
IncludePrefixes == {NoneOpt, Some({<<1>>}), Some({<<1, 2>>, <<2>>})}

\* the exclude prefixes: none configured, or "ab"
ExcludePrefixes == {NoneOpt, Some({<<1, 2>>})}

\* a TCGraph constructed on any of the inputs with any of the filters
InitFilter ==
    /\ \E named \in SUBSET Names : \E ds \in FilterDirectiveSets(named) :
           files = FilesOf(named, ds)
    /\ subdir_filter \in SubdirFilters
    /\ include_node_prefixes \in IncludePrefixes
    /\ exclude_node_prefixes \in ExcludePrefixes
    /\ Constructed
    /\ NothingParsed
    /\ tgraph = EmptyGraph
    /\ topo = StableTopoNew(EmptyGraph)
    /\ emitted = <<>>
    /\ exhausted = FALSE

SpecFilter == InitFilter /\ [][Next]_vars

(***************************************************************************)
(* The header parser, and the orchestrator on one file read line by line   *)
(***************************************************************************)
MaxLines == 3

\* the file that is read, and a second file that declares the name z
ParsePath == <<"d1", "f1">>

OtherPath == <<"d2", "f3">>

OtherContent == <<NameStr(CommentStr) \o <<" ", "z">>>>

\* the lines a model file is made of: name directives (one with an empty
\* value, one in upper case with blanks around its value), requires and
\* dropped_by directives with their separators, layer directives (one with an
\* empty value, one with a layer of no configuration), the legacy directives,
\* an exists directive; an empty line, a line of code, a directive behind a
\* blank, and a name directive without the blank after the comment string
HeaderLines ==
    {NameStr(CommentStr) \o v : v \in {<<" ", "a">>, <<" ", "b">>, <<>>}}
    \cup {CommentStr \o <<" ", "N", "A", "M", "E", ":", " ", "\t", "A", " ">>}
    \cup {DepStr(CommentStr) \o v :
              v \in {<<" ", "a", ",", " ", "b">>, <<" ", "b", " ", "c">>,
                     <<" ", ",", "a", ",", ",", " ">>}}
    \cup {DropStr(CommentStr) \o <<" ", "a", ",", "b">>}
    \cup {LayerStr(CommentStr) \o v :
              v \in {<<" ", "p", "r", "e", "p", "e", "n", "d">>,
                     <<" ", "a", "p", "p", "e", "n", "d">>, <<" ", "x">>, <<" ">>}}
    \cup {PrependStr(CommentStr), AppendStr(CommentStr)}
    \cup {EnsureExistsStr(CommentStr) \o <<" ", "a">>}
    \cup {<<>>, <<"s", ";">>}
    \cup {<<" ">> \o NameStr(CommentStr) \o <<" ", "b">>}
    \cup {CommentStr \o <<"n", "a", "m", "e", ":", " ", "b">>}

\* the files of at most MaxLines lines
Contents == UNION {[1..k -> HeaderLines] : k \in 0..MaxLines}

\* the default layers with the default fallback layer, and two layers with a
\* fallback layer that is none of them
LayerConfigs ==
    {[layers |-> Layers, fallback_layer |-> "normal"],
     [layers |-> <<"normal", "append">>, fallback_layer |-> "base"]}

\* a TCGraph constructed on a file with any of the contents and the second
\* file, under any of the layer configurations; `files` holds the header
\* blocks read off their lines
InitParse ==
    /\ comment_prefix = CommentStr
    /\ content \in Contents
    /\ \E c \in LayerConfigs :
           /\ config_layers = c.layers
           /\ fallback_layer = c.fallback_layer
    /\ files = [p \in {ParsePath, OtherPath} |->
                    ReadHeader(comment_prefix, IF p = ParsePath THEN content ELSE OtherContent,
                               fallback_layer)]
    /\ parse_ret = NoneOpt
    /\ subdir_filter = NoneOpt
    /\ include_node_prefixes = NoneOpt
    /\ exclude_node_prefixes = NoneOpt
    /\ Constructed
    /\ tgraph = EmptyGraph
    /\ topo = StableTopoNew(EmptyGraph)
    /\ emitted = <<>>
    /\ exhausted = FALSE

\* FileNode::from_file on the file
FromFileCall ==
    /\ parse_ret' = Some(FromFileLines(comment_prefix, ParsePath, content, config_layers,
                                       fallback_layer))
    /\ UNCHANGED <<tvars, cvars, gvars, hvars, comment_prefix, content, config_layers,
                   fallback_layer>>

NextParse == FromFileCall \/ BuildGraph \/ GetSortedFiles

SpecParse == InitParse /\ [][NextParse]_vars

(***************************************************************************)
(* The header parser under several comment prefixes, the directives        *)
(* written in several letter cases                                         *)
(***************************************************************************)
MaxCaseLines == 2

\* the values of --comment-prefix: the default, "#" and "REM"
CommentPrefixes == {CommentStr, <<"#">>, <<"R", "E", "M">>}

\* char::to_uppercase of the lower case letters
UpperOf == [c \in Range(LowerCase) |-> UpperCase[CodeOf[c]]]

\* str::to_uppercase, character by character
ToUppercase(s) ==
    [i \in DOMAIN s |-> IF s[i] \in DOMAIN UpperOf THEN UpperOf[s[i]] ELSE s[i]]

\* the directives of a model file, as the keys of from_file write them
CaseDirectives(c) ==
    {NameStr(c) \o <<" ", "a">>, DepStr(c) \o <<" ", "b">>,
     LayerStr(c) \o <<" ", "a", "p", "p", "e", "n", "d">>, PrependStr(c),
     EnsureExistsStr(c) \o <<" ", "a">>}

\* each of them as written, with what follows the comment prefix in upper
\* case, and with the first letter of the key alone in upper case
CaseLines(c) ==
    UNION {{d,
            c \o ToUppercase(After(d, c)),
            SubSeq(d, 1, Len(c) + 1) \o ToUppercase(SubSeq(d, Len(c) + 2, Len(c) + 2))
                \o SubSeq(d, Len(c) + 3, Len(d))} : d \in CaseDirectives(c)}

\* the files of at most MaxCaseLines of these lines
CaseContents(c) == UNION {[1..k -> CaseLines(c)] : k \in 0..MaxCaseLines}

\* a TCGraph constructed on one such file under any of the comment prefixes,
\* with the default layers
InitCase ==
    /\ comment_prefix \in CommentPrefixes
    /\ content \in CaseContents(comment_prefix)
    /\ config_layers = Layers
    /\ fallback_layer = "normal"
    /\ files = [p \in {ParsePath} |-> ReadHeader(comment_prefix, content, fallback_layer)]
    /\ parse_ret = NoneOpt
    /\ subdir_filter = NoneOpt
    /\ include_node_prefixes = NoneOpt
    /\ exclude_node_prefixes = NoneOpt
    /\ Constructed
    /\ tgraph = EmptyGraph
    /\ topo = StableTopoNew(EmptyGraph)
    /\ emitted = <<>>
    /\ exhausted = FALSE

SpecCase == InitCase /\ [][NextParse]_vars

(***************************************************************************)
(* The iterator as a state machine                                         *)
(***************************************************************************)
MaxEdges == 3

Pairs(n) == (1..n) \X (1..n)

EdgeSeqs(n) == UNION {[1..k -> Pairs(n)] : k \in 0..MaxEdges}

\* a graph of uniquely named nodes, inserted in any order, with its edges
\* added in any order, and a fresh iterator on it
InitTopo ==
    /\ \E ns \in SUBSET Names : \E nodes \in Orderings(ns) :
           \E edges \in EdgeSeqs(Len(nodes)) :
               /\ ns # {}
               /\ tgraph = [nodes |-> nodes, edges |-> edges]
    /\ topo = StableTopoNew(tgraph)
    /\ emitted = <<>>
    /\ exhausted = FALSE
    /\ files = <<>>
    /\ subdir_filter = NoneOpt
    /\ include_node_prefixes = NoneOpt
    /\ exclude_node_prefixes = NoneOpt
    /\ Constructed
    /\ NothingParsed

\* one call of next()
Next_ ==
    LET r == StableTopoNext(tgraph, topo)
    IN  /\ topo' = [ordered |-> r.ordered, tovisit |-> r.tovisit]
        /\ emitted' = IF r.item = None THEN emitted ELSE Append(emitted, r.item)
        /\ exhausted' = (exhausted \/ r.item = None)
        /\ UNCHANGED <<tgraph, cvars, gvars, hvars, pvars>>

NextTopo == Next_

SpecTopo == InitTopo /\ [][NextTopo]_vars

\* the iterator driven as get_sorted_files drives it: next() is called until
\* it has returned None
SpecTopoFair == InitTopo /\ [][NextTopo]_vars /\ WF_vars(NextTopo)

(***************************************************************************)
(* Vocabulary of the properties                                            *)
(***************************************************************************)
\* the positions at which x occurs in s
Positions(s, x) == {i \in DOMAIN s : s[i] = x}

\* the same named nodes and the same edges by name, the nodes inserted in the
\* order p and the edges in the order q
Reinserted(g, p, q) ==
    LET pos(a) == CHOOSE i \in DOMAIN p : p[i] = a
    IN  [nodes |-> [i \in DOMAIN p |-> g.nodes[p[i]]],
         edges |-> [k \in DOMAIN q |->
                       <<pos(g.edges[q[k]][1]), pos(g.edges[q[k]][2])>>]]

\* the orderings of 1..n, for every n the model needs
IndexOrderings ==
    [n \in 0..(IF Cardinality(Names) > MaxEdges THEN Cardinality(Names) ELSE MaxEdges)
        |-> Orderings(1..n)]

\* the insertion order that depends on the names alone: the nodes ascending
\* by name, the edges ascending by (source name, target name)
CanonicalInsertion(g) ==
    LET n == Len(g.nodes)
        p == CHOOSE f \in IndexOrderings[n] :
                 \A i, j \in 1..n : i < j => StrLt(g.nodes[f[i]], g.nodes[f[j]])
        pos(a) == CHOOSE i \in 1..n : p[i] = a
        key(e) == (pos(e[1]) - 1) * n + pos(e[2])
        q == CHOOSE f \in IndexOrderings[Len(g.edges)] :
                 \A i, j \in DOMAIN f :
                     i < j => key(g.edges[f[i]]) <= key(g.edges[f[j]])
    IN  Reinserted(g, p, q)

(***************************************************************************)
(* Properties of StableTopo (specification SpecTopo)                       *)
(***************************************************************************)
\* C1: topological validity.  In an acyclic graph, for every edge u->v, every
\* emission of v comes strictly after an emission of u, and once next() has
\* returned None both ends have been emitted.
C1_TopologicalValidity ==
    ~IsCyclicDirected(tgraph) =>
        \A e \in EdgeSet(tgraph) :
            /\ \A j \in Positions(emitted, e[2]) :
                   \E i \in Positions(emitted, e[1]) : i < j
            /\ exhausted => Positions(emitted, e[1]) # {}
                            /\ Positions(emitted, e[2]) # {}

\* C1 witness: an exhausted run on an acyclic graph of three nodes in which an
\* edge runs from a later-inserted node to an earlier-inserted one
C1_Witness ==
    /\ exhausted
    /\ ~IsCyclicDirected(tgraph)
    /\ Len(tgraph.nodes) = 3
    /\ Len(emitted) = 3
    /\ \E e \in EdgeSet(tgraph) : e[1] > e[2]
    /\ Cardinality(EdgeSet(tgraph)) >= 2

\* C2: completeness.  On an acyclic graph no node is ever emitted twice, and
\* when next() has returned None every node has been emitted exactly once.
C2_Completeness ==
    ~IsCyclicDirected(tgraph) =>
        /\ \A a \in DOMAIN tgraph.nodes : Cardinality(Positions(emitted, a)) <= 1
        /\ exhausted =>
               \A a \in DOMAIN tgraph.nodes : Cardinality(Positions(emitted, a)) = 1

\* C2 witness: an exhausted run on an acyclic graph with a parallel edge, so
\* that a node was pushed on tovisit twice
C2_Witness ==
    /\ exhausted
    /\ ~IsCyclicDirected(tgraph)
    /\ Len(tgraph.nodes) = 3
    /\ Len(emitted) = 3
    /\ \E i, j \in DOMAIN tgraph.edges : i # j /\ tgraph.edges[i] = tgraph.edges[j]

\* C3: determinism.  The names emitted by a complete run on a graph, whatever
\* the order in which its nodes and edges were inserted, are the names emitted
\* by a complete run on the same named nodes and edges inserted in the order
\* the names alone fix; so two insertion orders of one graph emit the same
\* sequence of names.
C3_Determinism ==
    exhausted =>
        NamesOf(tgraph, emitted)
            = NamesOf(CanonicalInsertion(tgraph), TopoOrder(CanonicalInsertion(tgraph)))

\* C3 witness: an exhausted run on a graph whose nodes were not inserted in
\* name order, with two nodes eligible at once
C3_Witness ==
    /\ exhausted
    /\ Len(tgraph.nodes) = 3
    /\ Len(emitted) = 3
    /\ \E i, j \in DOMAIN tgraph.nodes :
           i < j /\ StrLt(tgraph.nodes[j], tgraph.nodes[i])
    /\ Cardinality({a \in DOMAIN tgraph.nodes : IsInitial(tgraph, a)}) >= 2
    /\ tgraph.edges # <<>>
    /\ CanonicalInsertion(tgraph) # tgraph

\* the nodes eligible once the nodes of `before` are emitted: not emitted, and
\* every direct predecessor emitted
Eligible(g, before) ==
    {a \in DOMAIN g.nodes :
        /\ a \notin before
        /\ \A k \in DOMAIN IncomingNeighbors(g, a) : IncomingNeighbors(g, a)[k] \in before}

\* the nodes emitted before the k-th emission
EmittedBefore(k) == {emitted[i] : i \in 1..(k - 1)}

\* C12 as stated: of the nodes eligible at a step the one with the smallest
\* name is emitted; a graph without edges is emitted in ascending name order.
C12_StableVisitingOrder_AsStated ==
    \A k \in DOMAIN emitted :
        \A b \in Eligible(tgraph, EmittedBefore(k)) :
            ~WeightLt(tgraph, b, emitted[k])

\* C12: stable visiting order.  Every emitted node was eligible at its step,
\* and of the nodes eligible at a step the one with the largest name is
\* emitted; so a graph without edges is emitted in descending name order.
C12_StableVisitingOrder ==
    /\ \A k \in DOMAIN emitted :
           /\ emitted[k] \in Eligible(tgraph, EmittedBefore(k))
           /\ \A b \in Eligible(tgraph, EmittedBefore(k)) :
                  ~WeightLt(tgraph, emitted[k], b)
    /\ tgraph.edges = <<>> =>
           \A i, j \in DOMAIN emitted :
               i < j => WeightLt(tgraph, emitted[j], emitted[i])

\* C12 witness: a complete run during which two nodes were eligible at one
\* step after the first, on a graph with edges
C12_Witness ==
    /\ exhausted
    /\ Len(emitted) = 3
    /\ tgraph.edges # <<>>
    /\ \E k \in 2..3 : Cardinality(Eligible(tgraph, EmittedBefore(k))) >= 2

(***************************************************************************)
(* Vocabulary of the properties of TCGraph: what the input files declare    *)
(***************************************************************************)
\* the files whose header block parses to a node
ParsedPaths == {p \in DOMAIN files : FromFile(p, files[p]).ok}

\* the node a file parses to
NodeAt(p) == FromFile(p, files[p]).val[1]

\* the nodes the input declares, one per parsed file
InputNodes == {NodeAt(p) : p \in ParsedPaths}

DeclaredNames == {n.name : n \in InputNodes}

\* two distinct files declare the same name
HasNameClash ==
    \E p, q \in ParsedPaths : p # q /\ NodeAt(p).name = NodeAt(q).name

\* some file is rejected with a fatal header error
HasHeaderError ==
    \E p \in DOMAIN files :
        ~FromFile(p, files[p]).ok /\ ~HandleFileNodeError(FromFile(p, files[p])).ok

\* some requires token / exists token names a node no file declares
HasMissingDependency == \E n \in InputNodes : \E d \in n.deps : d \notin DeclaredNames

HasMissingExist ==
    \E n \in InputNodes : \E d \in n.ensure_exists : d \notin DeclaredNames

\* the pairs (dependent, dependency) whose dependent is in a layer ordered
\* before the layer of the dependency
InvalidPairs ==
    {<<n.name, m.name>> : <<n, m>> \in
        {x \in InputNodes \X InputNodes :
            /\ x[2].name \in x[1].deps
            /\ LayerIndex(x[1].layer) < LayerIndex(x[2].layer)}}

\* the pairs (dependent, dependency) of one layer
SameLayerRequires ==
    {x \in InputNodes \X InputNodes :
        x[2].name \in x[1].deps /\ x[1].layer = x[2].layer}

RECURSIVE RequiresClosure(_)
\* the nodes that a node of S requires, directly or not, within its layer
RequiresClosure(S) ==
    LET step == S \cup {x[2] : x \in {y \in SameLayerRequires : y[1] \in S}}
    IN  IF step = S THEN S ELSE RequiresClosure(step)

\* the same-layer requires relation has a directed cycle, a node that requires
\* itself included
HasRequiresCycle ==
    \E n \in InputNodes :
        n \in RequiresClosure({x[2] : x \in {y \in SameLayerRequires : y[1] = n}})

\* the state right after the first call of build_graph
FirstBuild == builds = 1 /\ ret.op = "build_graph"

NoFilters ==
    /\ subdir_filter = NoneOpt
    /\ include_node_prefixes = NoneOpt
    /\ exclude_node_prefixes = NoneOpt

\* get_sorted_files was called last and returned a list
Sorted == ret.op = "get_sorted_files" /\ ret.res.ok

(***************************************************************************)
(* Properties of TCGraph (specification Spec)                              *)
(***************************************************************************)
\* C4: dependency-respecting output.  With no filter configured, in the list
\* get_sorted_files returns after a successful build, for every registered
\* node n and every name d in n.deps, d is registered and the path of d occurs,
\* and occurs only, strictly before the path of n.
C4_DependencyRespecting ==
    Sorted /\ NoFilters =>
        \A n \in DOMAIN name_map : \A d \in name_map[n].deps :
            /\ d \in DOMAIN name_map
            /\ Positions(ret.res.val, name_map[d].path) # {}
            /\ Positions(ret.res.val, name_map[n].path) # {}
            /\ \A i \in Positions(ret.res.val, name_map[d].path) :
                   \A j \in Positions(ret.res.val, name_map[n].path) : i < j

\* C4 witness: a returned list for an input with a dependency inside a layer
\* and a dependency on a node of an earlier layer
C4_Witness ==
    /\ Sorted /\ NoFilters
    /\ Len(ret.res.val) = 3
    /\ \E n, m \in DOMAIN name_map :
           /\ m \in name_map[n].deps
           /\ name_map[n].layer = name_map[m].layer
    /\ \E n, m \in DOMAIN name_map :
           /\ m \in name_map[n].deps
           /\ LayerIndex(name_map[m].layer) < LayerIndex(name_map[n].layer)

\* the layer of the node registered for a path
LayerOfPath(p) == path_map[p].layer

FirstBuildFailedWith(kind) == FirstBuild /\ ret.res.kind = kind

\* the first build_graph call reported a fault that a stage before the
\* cross-layer check of a dependency can find, and that the input has
EarlierFaultThanInvalidDependency ==
    \/ FirstBuildFailedWith("InvalidFileHeader") /\ HasHeaderError
    \/ FirstBuildFailedWith("NameClash") /\ HasNameClash
    \/ FirstBuildFailedWith("MissingExist") /\ HasMissingExist
    \/ FirstBuildFailedWith("MissingDependency") /\ HasMissingDependency

LayerGraphsAcyclic == \A l \in LayerSet : ~IsCyclicDirected(graphs[l])

\* C7 as stated: the flag is set only with acyclic layer graphs, and whenever
\* the same-layer requires relation has a cycle the first build fails with
\* CyclicDependency and the flag stays false.
C7_CycleGate_AsStated ==
    /\ graph_is_built => LayerGraphsAcyclic
    /\ FirstBuild /\ HasRequiresCycle =>
           FirstBuildFailedWith("CyclicDependency") /\ ~graph_is_built

\* C7: cycle gate.  The flag is set, and build_graph returns Ok, only with
\* every layer graph acyclic.  Whenever the same-layer requires relation has
\* a cycle (a node that requires itself included) the first build fails and
\* the flag stays false; the error is CyclicDependency unless a fault the
\* input also has is reported first (InvalidFileHeader, NameClash,
\* MissingExist, MissingDependency, InvalidDependency).  CyclicDependency is
\* reported only for such a cycle.
C7_CycleGate ==
    /\ graph_is_built => LayerGraphsAcyclic
    /\ FirstBuild /\ ret.res.ok => graph_is_built /\ LayerGraphsAcyclic
    /\ FirstBuild /\ HasRequiresCycle =>
           /\ ~ret.res.ok
           /\ ~graph_is_built
           /\ \/ FirstBuildFailedWith("CyclicDependency")
              \/ EarlierFaultThanInvalidDependency
              \/ FirstBuildFailedWith("InvalidDependency") /\ InvalidPairs # {}
    /\ FirstBuildFailedWith("CyclicDependency") => HasRequiresCycle

\* C7 witness: the first build failed with CyclicDependency for a node of the
\* prepend layer that requires itself
C7_Witness ==
    /\ FirstBuildFailedWith("CyclicDependency")
    /\ ~graph_is_built
    /\ \E n \in InputNodes : n.name \in n.deps /\ n.layer = "prepend"
    /\ IsCyclicDirected(graphs["prepend"])

\* the input is two nodes a and b of one layer, a requiring b and b requiring
\* a, and no other node requires anything
MutualPair(a, b) ==
    /\ a # b
    /\ ~HasNameClash
    /\ \E n, m \in InputNodes :
           /\ n.name = a /\ m.name = b
           /\ n.layer = m.layer
           /\ n.deps = {b} /\ m.deps = {a}
           /\ \A o \in InputNodes \ {n, m} : o.deps = {}

\* the cycles of the CyclicDependency the last call returned
ReportedCycles == ret.res.val[1]

\* what every cycle of a report shows: as many participants as nodes, and an
\* edge list of that length whose every pair (x, y) is an edge of a layer
\* graph, y requiring x in the layer of both
WellFormedReport(cycle) ==
    /\ Cardinality(CycleReport(cycle).participants) = Len(cycle)
    /\ Len(CycleReport(cycle).edges) = Len(cycle)
    /\ \A k \in DOMAIN cycle :
           /\ CycleReport(cycle).edges[k][1] = cycle[k].name
           /\ CycleReport(cycle).edges[k][2] = cycle[(k % Len(cycle)) + 1].name
           /\ cycle[k].name \in cycle[(k % Len(cycle)) + 1].deps
           /\ cycle[k].layer = cycle[(k % Len(cycle)) + 1].layer

\* C8 as stated: every reported cycle is well formed, and for two nodes A and
\* B that require each other the report is one cycle with the participants
\* A and B and the edge list [(A,B), (B,A)], A being the first of the two by
\* name.
C8_CycleReport_AsStated ==
    FirstBuildFailedWith("CyclicDependency") =>
        /\ \A i \in DOMAIN ReportedCycles : WellFormedReport(ReportedCycles[i])
        /\ \A a, b \in DeclaredNames :
               MutualPair(a, b) /\ StrLt(a, b) =>
                   /\ Len(ReportedCycles) = 1
                   /\ {x[1] : x \in CycleReport(ReportedCycles[1]).participants} = {a, b}
                   /\ CycleReport(ReportedCycles[1]).edges = <<<<a, b>>, <<b, a>>>>

\* C8: cycle report content.  Every reported cycle lists as many participants
\* as it has nodes and its edges as the pairs of consecutive names with the
\* wraparound pair, each pair an edge of a layer graph.  For two nodes A and B
\* that require each other the report is one cycle with the participants A
\* and B, whose edge list is [(A,B), (B,A)] or [(B,A), (A,B)].
C8_CycleReport ==
    FirstBuildFailedWith("CyclicDependency") =>
        /\ \A i \in DOMAIN ReportedCycles : WellFormedReport(ReportedCycles[i])
        /\ \A a, b \in DeclaredNames :
               MutualPair(a, b) =>
                   /\ Len(ReportedCycles) = 1
                   /\ CycleReport(ReportedCycles[1]).participants
                          = {<<n.name, n.path>> : n \in {m \in InputNodes : m.name \in {a, b}}}
                   /\ CycleReport(ReportedCycles[1]).edges
                          \in {<<<<a, b>>, <<b, a>>>>, <<<<b, a>>, <<a, b>>>>}

\* C8 witness: the report for two nodes that require each other, its edge
\* list starting at the first of the two by name
C8_Witness ==
    /\ FirstBuildFailedWith("CyclicDependency")
    /\ \E a, b \in DeclaredNames :
           /\ MutualPair(a, b) /\ StrLt(a, b)
           /\ CycleReport(ReportedCycles[1]).edges = <<<<a, b>>, <<b, a>>>>

\* a NameClash error that carries a name and the paths of two distinct files
\* that both declare it
ClashOfTwoFiles(e) ==
    /\ e.kind = "NameClash"
    /\ e.val[2] # e.val[3]
    /\ \A k \in {2, 3} : e.val[k] \in ParsedPaths /\ NodeAt(e.val[k]).name = e.val[1]

\* C9 as stated: when two distinct files declare the same name the first
\* build fails with NameClash carrying the name and both paths, the flag
\* stays false and get_sorted_files returns GraphMissing.
C9_NameUniqueness_AsStated ==
    HasNameClash =>
        /\ FirstBuild => ClashOfTwoFiles(ret.res)
        /\ ~graph_is_built
        /\ ret.op = "get_sorted_files" => ret.res = Err("GraphMissing", <<>>)

\* C9: name uniqueness.  When two distinct files declare the same name the
\* first build fails, with NameClash carrying the name and the paths of two
\* files that declare it, or with InvalidFileHeader when some file has a fatal
\* header error; the flag stays false and get_sorted_files returns
\* GraphMissing.
C9_NameUniqueness ==
    HasNameClash =>
        /\ FirstBuild =>
               \/ ClashOfTwoFiles(ret.res)
               \/ FirstBuildFailedWith("InvalidFileHeader") /\ HasHeaderError
        /\ ~graph_is_built
        /\ ret.op = "get_sorted_files" => ret.res = Err("GraphMissing", <<>>)

\* C9 witness: get_sorted_files called after a build that failed with
\* NameClash, the clashing name registered once
C9_Witness ==
    /\ HasNameClash
    /\ builds = 1
    /\ ret.op = "get_sorted_files"
    /\ DOMAIN name_map # {}
    /\ \E p, q \in ParsedPaths :
           /\ p # q /\ NodeAt(p).name = NodeAt(q).name
           /\ NodeAt(p).name \in DOMAIN name_map
    /\ ~HasHeaderError

\* C10: built-flag gate.  While no build_graph call has returned Ok the flag
\* is false and get_sorted_files and graph_as_dot return GraphMissing, before
\* any build and after failed ones; a build_graph call that fails leaves the
\* flag unset, and a set flag means some call returned Ok.
C10_BuiltFlagGate ==
    /\ graph_is_built => ever_ok
    /\ ~ever_ok /\ ret.op \in {"get_sorted_files", "graph_as_dot"} =>
           ret.res = Err("GraphMissing", <<>>)
    /\ FirstBuild /\ ~ret.res.ok => ~graph_is_built

\* C10 witness: graph_as_dot returned GraphMissing after a failed build that
\* left name_map and a layer graph populated
C10_Witness ==
    /\ ret.op = "graph_as_dot"
    /\ ret.res = Err("GraphMissing", <<>>)
    /\ builds = 1
    /\ ~ever_ok
    /\ DOMAIN name_map # {}
    /\ \E l \in LayerSet : graphs[l].nodes # <<>> /\ graphs[l].edges # <<>>

\* a step of one of the two reads
ReadStep == ret'.op \in {"get_sorted_files", "graph_as_dot"}

\* C11: idempotence of reads.  On a built graph get_sorted_files has one
\* result whatever the iteration orders of its hash sets, so two calls with no
\* rebuild between them return the same sequence; and a step of
\* get_sorted_files or graph_as_dot leaves the layer graphs, the name and path
\* indices and the built flag as they were.
C11_ReadIdempotence ==
    [][/\ graph_is_built => Cardinality(GetSortedFilesResults) = 1
       /\ ReadStep => gvars' = gvars
       /\ (graph_is_built /\ ret.op = "get_sorted_files" /\ ret'.op = "get_sorted_files")
              => ret'.res = ret.res]_vars

\* C11 witness: get_sorted_files has returned three paths under a subdirectory
\* filter with two seeds, one of them with two dependencies
C11_Witness ==
    /\ graph_is_built
    /\ ret.op = "get_sorted_files"
    /\ ret.res.ok
    /\ Len(ret.res.val) = 3
    /\ subdir_filter = Some("d1")
    /\ Cardinality(InitialNodes) = 2
    /\ \E n \in DOMAIN name_map : Cardinality(name_map[n].deps) = 2

\* the names StableTopo emits, layer graph after layer graph
EmittedNames == UNION {Range(NamesOf(graphs[l], TopoOrder(graphs[l]))) : l \in LayerSet}

\* the names whose paths are in the output get_sorted_files has returned
OutputNames == {n \in DOMAIN name_map : name_map[n].path \in Range(ret.res.val)}

\* the subsets of the names that hold the seeds and, with a registered node,
\* its raw deps
ClosedSets(seeds) ==
    {T \in SUBSET Names :
        /\ seeds \subseteq T
        /\ \A n \in T \cap DOMAIN name_map : name_map[n].deps \subseteq T}

\* the least of them
LeastClosed(seeds) == {n \in Names : \A T \in ClosedSets(seeds) : n \in T}

\* get_sorted_files has returned a sequence on a built graph
SortedReturned ==
    graph_is_built /\ ret.op = "get_sorted_files" /\ ret.res.ok

\* C13: output inclusion rule.  A node StableTopo emits is in the output of
\* get_sorted_files iff (a) no subdirectory filter is configured or its name
\* is in the closure set, and (b) if include prefixes are configured its name
\* starts with one of them and if exclude prefixes are configured it starts
\* with none of them.
C13_InclusionRule ==
    SortedReturned =>
        \A n \in EmittedNames :
            n \in OutputNames <=>
                /\ subdir_filter = NoneOpt \/ n \in LeastClosed(InitialNodes)
                /\ include_node_prefixes = NoneOpt
                       \/ \E p \in include_node_prefixes[1] : StartsWith(n, p)
                /\ exclude_node_prefixes = NoneOpt
                       \/ \A p \in exclude_node_prefixes[1] : ~StartsWith(n, p)

\* C13 witness: with the three filters configured, one emitted node is in the
\* output, one is kept out by the closure and one, of the closure and with an
\* include prefix, by the exclude prefix
C13_Witness ==
    /\ SortedReturned
    /\ subdir_filter # NoneOpt
    /\ include_node_prefixes # NoneOpt
    /\ exclude_node_prefixes # NoneOpt
    /\ Len(ret.res.val) = 1
    /\ EmittedNames \ LeastClosed(InitialNodes) # {}
    /\ \E n \in EmittedNames \cap LeastClosed(InitialNodes) :
           /\ \E p \in include_node_prefixes[1] : StartsWith(n, p)
           /\ \E p \in exclude_node_prefixes[1] : StartsWith(n, p)

\* find_required_nodes yields the least closed set of the seeds, for every
\* iteration order, having popped every required name once; and the output
\* without prefix filters is that set
ClosureIsLeast ==
    (graph_is_built /\ subdir_filter # NoneOpt /\ subdir_filter[1] \in ExistingDirs) =>
        /\ \A r \in RequiredNodes :
               /\ r.ok
               /\ r.val[1] = LeastClosed(InitialNodes)
               /\ Range(r.val[2]) = r.val[1]
               /\ Len(r.val[2]) = Cardinality(r.val[1])
        /\ (SortedReturned /\ include_node_prefixes = NoneOpt
                /\ exclude_node_prefixes = NoneOpt)
               => OutputNames = LeastClosed(InitialNodes)

\* C14 as stated: dependency closure, and whenever the subdirectory filter
\* selects no node get_sorted_files returns the empty sequence.
C14_DependencyClosure_AsStated ==
    /\ ClosureIsLeast
    /\ (graph_is_built /\ subdir_filter # NoneOpt /\ InitialNodes = {})
           => GetSortedFilesResults = {Ok(<<>>)}

\* C14: dependency closure.  find_required_nodes returns exactly the least
\* set that holds the seeds and is closed under the raw deps, whatever the
\* layers, each name enqueued once; a subdirectory filter on an existing
\* directory that selects no node makes get_sorted_files return the empty
\* sequence, and one on a path that does not exist makes it fail with Io.
C14_DependencyClosure ==
    /\ ClosureIsLeast
    /\ (graph_is_built /\ subdir_filter # NoneOpt /\ InitialNodes = {})
           => GetSortedFilesResults =
                  IF subdir_filter[1] \in ExistingDirs THEN {Ok(<<>>)}
                  ELSE {Err("Io", <<subdir_filter[1]>>)}

\* C14 witness: one seed whose closure reaches a third node through a second,
\* across layers, all three returned
C14_Witness ==
    /\ SortedReturned
    /\ Cardinality(InitialNodes) = 1
    /\ Cardinality(LeastClosed(InitialNodes)) = 3
    /\ \A n \in InitialNodes : Cardinality(name_map[n].deps) = 1
    /\ Len(ret.res.val) = 3

\* C14 witness of the empty seed set: the filter directory exists and holds
\* no file, and the empty sequence was returned on a graph with nodes
EmptySeedsReached ==
    /\ SortedReturned
    /\ subdir_filter = Some("d3")
    /\ DOMAIN name_map # {}
    /\ ret.res.val = <<>>

\* the pairs (requester, missing name) of the requires tokens that name no
\* declared node, and the pairs (asserter, missing name) of the exists tokens
MissingDependencyPairs ==
    UNION {{<<n.name, d>> : d \in n.deps \ DeclaredNames} : n \in InputNodes}

MissingExistPairs ==
    UNION {{<<n.name, d>> : d \in n.ensure_exists \ DeclaredNames} : n \in InputNodes}

\* the first build reported a fault of the input that is met before, or in the
\* same pass as, a missing name
OtherFaultThanMissingName ==
    \/ FirstBuildFailedWith("InvalidFileHeader") /\ HasHeaderError
    \/ FirstBuildFailedWith("NameClash") /\ HasNameClash
    \/ FirstBuildFailedWith("InvalidDependency") /\ InvalidPairs # {}

\* every edge of a layer graph runs from a name in the deps of its target
EdgesFromDepsOnly ==
    \A l \in LayerSet : \A e \in EdgeSet(graphs[l]) :
        NodeWeight(graphs[l], e[1]) \in name_map[NodeWeight(graphs[l], e[2])].deps

\* the input has none of the faults build_graph reports
FaultlessInput ==
    /\ ~HasHeaderError /\ ~HasNameClash
    /\ ~HasMissingDependency /\ ~HasMissingExist
    /\ InvalidPairs = {} /\ ~HasRequiresCycle

\* C15 as stated: the first build succeeds only if every deps and every
\* ensure_exists name is declared; a missing deps name yields
\* MissingDependency(requester, missing) and a missing ensure_exists name
\* yields MissingExist(asserter, missing); existence assertions add no edge
\* and no constraint.
C15_ReferenceIntegrity_AsStated ==
    /\ EdgesFromDepsOnly
    /\ FirstBuild =>
           /\ ret.res.ok => ~HasMissingDependency /\ ~HasMissingExist
           /\ FaultlessInput => ret.res.ok
           /\ HasMissingDependency =>
                  FirstBuildFailedWith("MissingDependency")
                      /\ ret.res.val \in MissingDependencyPairs
           /\ HasMissingExist =>
                  FirstBuildFailedWith("MissingExist")
                      /\ ret.res.val \in MissingExistPairs

\* C15: reference integrity.  The first build succeeds only if every deps name
\* and every ensure_exists name is declared by some file, whatever its layer.
\* With a missing name the build fails and the flag stays false; the error is
\* MissingDependency(requester, missing) or MissingExist(asserter, missing)
\* for a missing name the input has, unless another fault of the input is
\* reported first (InvalidFileHeader, NameClash, InvalidDependency).  An
\* ensure_exists name that is declared adds no edge and no constraint: every
\* edge comes from a deps name, and an input without fault builds.
C15_ReferenceIntegrity ==
    /\ EdgesFromDepsOnly
    /\ FirstBuild =>
           /\ ret.res.ok => ~HasMissingDependency /\ ~HasMissingExist
           /\ FaultlessInput => ret.res.ok
           /\ HasMissingDependency \/ HasMissingExist =>
                  /\ ~ret.res.ok
                  /\ ~graph_is_built
                  /\ \/ FirstBuildFailedWith("MissingDependency")
                     \/ FirstBuildFailedWith("MissingExist")
                     \/ OtherFaultThanMissingName
           /\ FirstBuildFailedWith("MissingDependency") =>
                  ret.res.val \in MissingDependencyPairs
           /\ FirstBuildFailedWith("MissingExist") =>
                  ret.res.val \in MissingExistPairs

\* C15 witness: the first build failed with MissingDependency for a node of
\* the prepend layer that also asserts the existence of a declared node of a
\* later layer
C15_Witness ==
    /\ FirstBuildFailedWith("MissingDependency")
    /\ ret.res.val \in MissingDependencyPairs
    /\ \E n, m \in InputNodes :
           /\ n.name = ret.res.val[1]
           /\ m.name \in n.ensure_exists
           /\ LayerIndex(n.layer) < LayerIndex(m.layer)

\* an input whose prepend node asserts the existence of a node of a later
\* layer has built, and no layer graph has an edge
ExistsAcrossLayersBuilt ==
    /\ FirstBuild /\ ret.res.ok
    /\ \E n, m \in InputNodes :
           m.name \in n.ensure_exists /\ LayerIndex(n.layer) < LayerIndex(m.layer)
    /\ \A l \in LayerSet : graphs[l].edges = <<>>

(***************************************************************************)
(* Vocabulary of the properties of the header parser: what the lines of    *)
(* the file say (specification SpecParse)                                  *)
(***************************************************************************)
\* the leading lines of the file that start with the comment string
HeaderBlock == GetFileHeaders(content, CommentStr)

\* a line as the directives are matched against it
Lowered(line) == ToLowercase(Trim(line))

IsNameLine(line) == StartsWith(Lowered(line), NameStr(CommentStr))

IsDepLine(line) ==
    \/ StartsWith(Lowered(line), DepStr(CommentStr))
    \/ StartsWith(Lowered(line), DropStr(CommentStr))

IsLayerLine(line) == StartsWith(Lowered(line), LayerStr(CommentStr))

IsInitialLine(line) == StartsWith(Lowered(line), PrependStr(CommentStr))

IsFinalLine(line) == StartsWith(Lowered(line), AppendStr(CommentStr))

\* the name directives of the header block, in order, and their values
NameLines == SelectSeq(HeaderBlock, IsNameLine)

NameValues ==
    [i \in DOMAIN NameLines |->
        CodesOf(Trim(After(Lowered(NameLines[i]), NameStr(CommentStr))))]

\* the name directives with a value
NamedAt == {i \in DOMAIN NameLines : NameValues[i] # <<>>}

DeclaresName == NamedAt # {}

\* a name directive follows the first one that has a value
SecondNameFollows ==
    DeclaresName /\ (CHOOSE i \in NamedAt : \A j \in NamedAt : i <= j) < Len(NameLines)

SingleName == DeclaresName /\ ~SecondNameFollows

\* the value of a layer directive
LayerValueOf(line) == StringOf(Trim(After(Lowered(line), LayerStr(CommentStr))))

\* the lines that set the layer: a layer directive with a value, is_initial,
\* is_final
SetsLayer(line) ==
    \/ IsLayerLine(line) /\ LayerValueOf(line) # ""
    \/ IsInitialLine(line)
    \/ IsFinalLine(line)

LayerSetters == SelectSeq(HeaderBlock, SetsLayer)

\* the layer the header resolves to: what the last of these lines says, the
\* fallback layer when there is none
ResolvedLayer ==
    IF LayerSetters = <<>> THEN fallback_layer
    ELSE LET last == LayerSetters[Len(LayerSetters)]
         IN  IF IsLayerLine(last) THEN LayerValueOf(last)
             ELSE IF IsInitialLine(last) THEN "prepend"
             ELSE "append"

\* the file with every legacy directive written as the layer directive it
\* stands for
LegacyAsLayer ==
    [i \in DOMAIN content |->
        IF content[i] = PrependStr(CommentStr)
        THEN LayerStr(CommentStr) \o <<" ", "p", "r", "e", "p", "e", "n", "d">>
        ELSE IF content[i] = AppendStr(CommentStr)
        THEN LayerStr(CommentStr) \o <<" ", "a", "p", "p", "e", "n", "d">>
        ELSE content[i]]

\* the value of a requires or dropped_by directive
DepValueOf(line) ==
    IF StartsWith(Lowered(line), DepStr(CommentStr))
    THEN After(Lowered(line), DepStr(CommentStr))
    ELSE After(Lowered(line), DropStr(CommentStr))

\* the tokens of a value: its maximal runs of characters that are neither
\* whitespace nor a comma
Tokens(v) ==
    LET sep(k) == v[k] \in {" ", "\t", ","}
    IN  {CodesOf(SubSeq(v, i, j)) : <<i, j>> \in
            {x \in (DOMAIN v) \X (DOMAIN v) :
                /\ x[1] <= x[2]
                /\ \A k \in x[1]..x[2] : ~sep(k)
                /\ x[1] = 1 \/ sep(x[1] - 1)
                /\ x[2] = Len(v) \/ sep(x[2] + 1)}}

\* from_file was called on the file; what it returned
Parsed == parse_ret # NoneOpt

ParseRet == parse_ret[1]

\* C16: single name.  Whenever the header block has a second name directive,
\* whatever the values of the two, from_file fails with TooManyNames carrying
\* the values of the first two name directives, and the first build fails.
C16_SingleName ==
    Len(NameLines) >= 2 =>
        /\ Parsed =>
               ParseRet = Err("TooManyNames",
                              <<ParsePath, <<NameValues[1], NameValues[2]>>>>)
        /\ FirstBuild => ~ret.res.ok /\ ~graph_is_built

InNoIndex(path) ==
    /\ path \notin DOMAIN path_map
    /\ \A n \in DOMAIN name_map : name_map[n].path # path
    /\ \A l \in LayerSet : \A w \in Range(graphs[l].nodes) :
           w \in DOMAIN name_map /\ name_map[w].path # path

\* C18: unnamed files are skipped.  For a file whose header block declares no
\* name, from_file returns NoNameDefined; the file is in no index and no layer
\* graph and in no output of get_sorted_files; and the build goes on: under
\* the default layers the first build succeeds and registers the other file.
C18_UnnamedSkipped ==
    ~DeclaresName =>
        /\ Parsed => ParseRet = Err("NoNameDefined", <<ParsePath>>)
        /\ InNoIndex(ParsePath)
        /\ (ret.op = "get_sorted_files" /\ ret.res.ok) => ParsePath \notin Range(ret.res.val)
        /\ (FirstBuild /\ config_layers = Layers) =>
               /\ ret.res.ok
               /\ graph_is_built
               /\ OtherPath \in DOMAIN path_map

\* C18 witness: a file with a requires directive and no name was parsed and
\* built, and get_sorted_files returned the other file alone
C18_Witness ==
    /\ ~DeclaresName
    /\ \E i \in DOMAIN HeaderBlock : IsDepLine(HeaderBlock[i])
    /\ Parsed
    /\ ret.op = "get_sorted_files"
    /\ ret.res = Ok(<<OtherPath>>)

\* C19: layer resolution.  The layer of a parsed node is the fallback layer
\* when no line of the header block sets the layer, and else what the last
\* such line says: the value of a layer directive with a value (one without a
\* value sets nothing), "prepend" for is_initial, "append" for is_final; an
\* InvalidLayer error carries that layer; and from_file returns the same for
\* the file with its legacy directives written as layer: prepend / layer:
\* append.
C19_LayerResolution ==
    Parsed =>
        /\ ParseRet.ok => ParseRet.val[1].layer = ResolvedLayer
        /\ ParseRet.kind = "InvalidLayer" => ParseRet.val[2] = ResolvedLayer
        /\ ParseRet = FromFileLines(CommentStr, ParsePath, LegacyAsLayer, config_layers,
                                    fallback_layer)

\* C19 witness: a parsed node of layer append, from is_final followed by a
\* layer directive without a value
C19_Witness ==
    /\ Parsed
    /\ ParseRet.ok
    /\ ParseRet.val[1].layer = "append"
    /\ \E i, j \in DOMAIN HeaderBlock :
           /\ i < j
           /\ IsFinalLine(HeaderBlock[i])
           /\ IsLayerLine(HeaderBlock[j]) /\ LayerValueOf(HeaderBlock[j]) = ""

\* C20: dependency directives.  The deps of a parsed node are the union, over
\* the requires and the dropped_by directives of the header block alike, of
\* the tokens of the value: its non-empty runs between whitespace and commas.
C20_DependencyDirectives ==
    (Parsed /\ ParseRet.ok) =>
        ParseRet.val[1].deps =
            UNION {Tokens(DepValueOf(HeaderBlock[i])) :
                       i \in {k \in DOMAIN HeaderBlock : IsDepLine(HeaderBlock[k])}}

\* C20 witness: a parsed node with three deps, read off a requires and a
\* dropped_by directive that share a token
C20_Witness ==
    /\ Parsed
    /\ ParseRet.ok
    /\ Cardinality(ParseRet.val[1].deps) = 3
    /\ \E i, j \in DOMAIN HeaderBlock :
           /\ StartsWith(Lowered(HeaderBlock[i]), DepStr(CommentStr))
           /\ StartsWith(Lowered(HeaderBlock[j]), DropStr(CommentStr))
           /\ Tokens(DepValueOf(HeaderBlock[i])) \cap Tokens(DepValueOf(HeaderBlock[j])) # {}

\* a line that is empty or starts with the comment string
IsLeading(line) == line = <<>> \/ SubSeq(line, 1, Len(CommentStr)) = CommentStr

\* the position of the first line of the file that is neither, one past the
\* last line when there is none
BlockEnd ==
    CHOOSE k \in 1..(Len(content) + 1) :
        /\ \A j \in 1..(k - 1) : IsLeading(content[j])
        /\ k <= Len(content) => ~IsLeading(content[k])

\* the maximal leading run of such lines
LeadingRun == SubSeq(content, 1, BlockEnd - 1)

\* the name directives with a value among the lines from the i-th to the j-th
NamesWithin(i, j) ==
    {k \in i..j : IsNameLine(content[k])
                    /\ Trim(After(Lowered(content[k]), NameStr(CommentStr))) # <<>>}

\* C21: header block boundary.  The lines from_file parses for directives are
\* the lines of the maximal leading run of lines that are empty or start with
\* the comment string, in order and without the empty ones; what from_file
\* returns and what build_graph reads off the file is what they are for the
\* leading run alone, so a directive behind the first other line has no
\* effect; a name declared only there leaves the file without a name.
C21_HeaderBoundary ==
    /\ HeaderBlock = SelectSeq(LeadingRun, LAMBDA x : x # <<>>)
    /\ files[ParsePath] = ReadHeader(CommentStr, LeadingRun, fallback_layer)
    /\ Parsed =>
           /\ ParseRet = FromFileLines(CommentStr, ParsePath, LeadingRun, config_layers,
                                       fallback_layer)
           /\ NamesWithin(1, BlockEnd - 1) = {} => ParseRet.kind = "NoNameDefined"
           /\ NamesWithin(1, BlockEnd - 1) # {} => ParseRet.kind # "NoNameDefined"

\* C21 witness: a node was parsed off a file whose second line is code and
\* whose third line is a requires directive, and the node has no deps
C21_Witness ==
    /\ Parsed
    /\ ParseRet.ok
    /\ Len(content) = 3
    /\ BlockEnd = 2
    /\ IsDepLine(content[3])
    /\ ParseRet.val[1].deps = {}

\* a file whose only name directive with a value stands behind a line of code
\* was parsed as a file without a name, and the build skipped it
NameBehindCodeSkipped ==
    /\ Parsed
    /\ NamesWithin(1, BlockEnd - 1) = {}
    /\ NamesWithin(BlockEnd, Len(content)) # {}
    /\ ParseRet.kind = "NoNameDefined"
    /\ FirstBuild
    /\ ret.res.ok
    /\ ParsePath \notin DOMAIN path_map

(***************************************************************************)
(* Properties of the header parser under the comment prefixes              *)
(* (specification SpecCase)                                                *)
(***************************************************************************)
\* every line of the file starts with the comment prefix: a header line
AllHeaderLines == \A i \in DOMAIN content : StartsWith(content[i], comment_prefix)

\* the file and the comment prefix written in lower case
LowerCased == [i \in DOMAIN content |-> ToLowercase(content[i])]

\* some line of the file is, letter case apart, a name directive with a value
NamedInSomeCase ==
    \E i \in DOMAIN content :
        /\ StartsWith(ToLowercase(Trim(content[i])), ToLowercase(NameStr(comment_prefix)))
        /\ Trim(After(Trim(content[i]), NameStr(comment_prefix))) # <<>>

\* what from_file returns for the file written in lower case under the comment
\* prefix written in lower case
LowerCaseResult ==
    FromFileLines(ToLowercase(comment_prefix), ParsePath, LowerCased, config_layers,
                  fallback_layer)

\* C22: case-insensitive directives.  For every comment prefix and every file
\* of header lines, from_file recognises the directives in whatever letter
\* case the lines are written: it returns what it returns for the lines
\* written in lower case (so the stored name, deps, layer and ensure_exists
\* are the lower-cased values), and a file with a name directive in some
\* letter case is not taken for a file without a name.
C22_CaseInsensitive ==
    (AllHeaderLines /\ Parsed) =>
        /\ ParseRet = LowerCaseResult
        /\ NamedInSomeCase => ParseRet.kind # "NoNameDefined"

\* the same for the comment prefixes without an upper case letter
CaseInsensitiveUnderLowerCasePrefix ==
    (comment_prefix = ToLowercase(comment_prefix)) => C22_CaseInsensitive

\* under the default prefix a node was parsed off directives in upper case
UpperCaseDirectivesParsed ==
    /\ comment_prefix = CommentStr
    /\ content = <<CommentStr \o ToUppercase(After(NameStr(CommentStr) \o <<" ", "a">>,
                                                   CommentStr)),
                   CommentStr \o ToUppercase(After(DepStr(CommentStr) \o <<" ", "b">>,
                                                   CommentStr))>>
    /\ Parsed
    /\ ParseRet = Ok(<<FileNode(<<1>>, ParsePath, {<<2>>}, "normal", {})>>)

\* under the prefix REM the file of the line `REM name: a` was taken for a
\* file without a name, and the build skipped it
UpperCasePrefixIgnored ==
    /\ comment_prefix = <<"R", "E", "M">>
    /\ content = <<NameStr(comment_prefix) \o <<" ", "a">>>>
    /\ Parsed
    /\ ParseRet = Err("NoNameDefined", <<ParsePath>>)
    /\ FirstBuild
    /\ ret.res.ok
    /\ name_map = <<>>

(***************************************************************************)
(* Properties of the built graphs (specification Spec)                     *)
(***************************************************************************)
\* build_graph has got past add_nodes_to_graphs and validate_dependencies: it
\* returned Ok or CyclicDependency, or the flag is set
PhasesDone ==
    \/ graph_is_built
    \/ ret.op = "build_graph" /\ ret.res.kind \in {"Ok", "CyclicDependency"}

\* the pairs (dependent, dependency) of registered nodes of one layer
RegisteredSameLayerPairs ==
    {x \in (DOMAIN name_map) \X (DOMAIN name_map) :
        /\ x[2] \in name_map[x[1]].deps
        /\ name_map[x[1]].layer = name_map[x[2]].layer}

\* the pairs (dependent, dependency) of registered nodes of two layers
RegisteredCrossLayerPairs ==
    {x \in (DOMAIN name_map) \X (DOMAIN name_map) :
        /\ x[2] \in name_map[x[1]].deps
        /\ name_map[x[1]].layer # name_map[x[2]].layer}

\* the edges of the layer graph l from the node named d to the node named n
EdgesBetween(l, d, n) ==
    {k \in DOMAIN graphs[l].edges :
        /\ graphs[l].nodes[graphs[l].edges[k][1]] = d
        /\ graphs[l].nodes[graphs[l].edges[k][2]] = n}

\* C23: layer graph structure.  Once build_graph is past the node placement
\* and the edge phase, every registered node is a node of the graph of its
\* layer, once, and of no other graph, and the graphs hold no other node;
\* every edge of a layer graph joins two nodes of that graph and runs from a
\* dependency to its dependent; for every (node, dep) pair of one layer there
\* is exactly one edge, and for a pair of two layers there is none.
C23_LayerGraphStructure ==
    PhasesDone =>
        /\ \A l \in LayerSet :
               /\ Range(graphs[l].nodes) \subseteq DOMAIN name_map
               /\ \A n \in DOMAIN name_map :
                      Cardinality(Positions(graphs[l].nodes, n))
                          = IF name_map[n].layer = l THEN 1 ELSE 0
               /\ \A k \in DOMAIN graphs[l].edges :
                      LET e == graphs[l].edges[k]
                      IN  /\ e[1] \in DOMAIN graphs[l].nodes
                          /\ e[2] \in DOMAIN graphs[l].nodes
                          /\ graphs[l].nodes[e[1]] \in name_map[graphs[l].nodes[e[2]]].deps
        /\ \A x \in RegisteredSameLayerPairs :
               Cardinality(EdgesBetween(name_map[x[1]].layer, x[2], x[1])) = 1
        /\ \A x \in RegisteredCrossLayerPairs :
               \A l \in LayerSet : EdgesBetween(l, x[2], x[1]) = {}

\* C23 witness: a built graph with nodes in two layers, a node that requires
\* a node of its layer and a node that requires a node of another layer
C23_Witness ==
    /\ graph_is_built
    /\ RegisteredSameLayerPairs # {}
    /\ RegisteredCrossLayerPairs # {}
    /\ Cardinality({l \in LayerSet : graphs[l].nodes # <<>>}) >= 2
    /\ \E l \in LayerSet : Len(graphs[l].edges) = 1

\* the elementary cycles of the same-layer requires relation of the registered
\* nodes, each as the sequence of its names from its least name on, every name
\* required by the next and the last by the first
RequiresCycles ==
    {c \in UNION {[1..k -> DOMAIN name_map] : k \in 1..Cardinality(DOMAIN name_map)} :
        /\ \A i, j \in DOMAIN c : i # j => c[i] # c[j]
        /\ \A i \in DOMAIN c : i # 1 => StrLt(c[1], c[i])
        /\ \A i \in DOMAIN c :
               <<c[(i % Len(c)) + 1], c[i]>> \in RegisteredSameLayerPairs}

\* a reported cycle as the sequence of its names from its least name on
FromLeastName(cycle) ==
    LET s == CHOOSE k \in DOMAIN cycle :
                 \A i \in DOMAIN cycle : i # k => StrLt(cycle[k].name, cycle[i].name)
    IN  [i \in DOMAIN cycle |-> cycle[((i + s - 2) % Len(cycle)) + 1].name]

\* the layers whose requires relation has a cycle
CyclicLayers == {name_map[c[1]].layer : c \in RequiresCycles}

\* C24: aggregated cycle report.  The CyclicDependency error build_graph
\* returns holds every elementary cycle of every layer, each once and as a
\* sequence of distinct nodes, and nothing else: no cycle is left out when
\* several layers are cyclic or a layer has several cycles, and no reported
\* cycle lies in an acyclic layer.
C24_AggregatedCycleReport ==
    (ret.op = "build_graph" /\ ret.res.kind = "CyclicDependency") =>
        /\ Len(ReportedCycles) = Cardinality(RequiresCycles)
        /\ \A i \in DOMAIN ReportedCycles :
               Cardinality({ReportedCycles[i][k].name : k \in DOMAIN ReportedCycles[i]})
                   = Len(ReportedCycles[i])
        /\ {FromLeastName(ReportedCycles[i]) : i \in DOMAIN ReportedCycles} = RequiresCycles
        /\ \A i \in DOMAIN ReportedCycles :
               IsCyclicDirected(graphs[ReportedCycles[i][1].layer])

\* C24 witness: a report of two cycles that lie in two layers, a third layer
\* being acyclic
C24_Witness ==
    /\ FirstBuildFailedWith("CyclicDependency")
    /\ Cardinality(CyclicLayers) = 2
    /\ Len(ReportedCycles) = 2
    /\ ReportedCycles[1][1].layer # ReportedCycles[2][1].layer

\* a report of two cycles of one layer, one of them through two nodes
SeveralCyclesOfOneLayerReported ==
    /\ FirstBuildFailedWith("CyclicDependency")
    /\ Cardinality(CyclicLayers) = 1
    /\ Len(ReportedCycles) = 2
    /\ \E i \in DOMAIN ReportedCycles : Len(ReportedCycles[i]) = 2

\* C25: no file is silently dropped.  With no filter configured, the list
\* get_sorted_files returns holds the path of every entry of name_map exactly
\* once, and nothing else; the paths of name_map are those of path_map.
C25_NoFileDropped ==
    (Sorted /\ NoFilters) =>
        /\ graph_is_built
        /\ \A n \in DOMAIN name_map :
               Cardinality(Positions(ret.res.val, name_map[n].path)) = 1
        /\ Range(ret.res.val) = {name_map[n].path : n \in DOMAIN name_map}
        /\ Range(ret.res.val) = DOMAIN path_map
        /\ Len(ret.res.val) = Cardinality(DOMAIN name_map)

\* C25 witness: a list of three paths, of nodes of two layers of which one
\* requires another of its layer and one requires nothing and is required by
\* none
C25_Witness ==
    /\ Sorted
    /\ NoFilters
    /\ Len(ret.res.val) = 3
    /\ Cardinality({l \in LayerSet : graphs[l].nodes # <<>>}) = 2
    /\ Cardinality(RegisteredSameLayerPairs) = 1
    /\ \E n \in DOMAIN name_map :
           /\ name_map[n].deps = {}
           /\ \A m \in DOMAIN name_map : n \notin name_map[m].deps

\* a list that lacks the file without a name, the other two being emitted
UnnamedFileNotListed ==
    /\ Sorted
    /\ Len(ret.res.val) = 2
    /\ Cardinality(DOMAIN files) = 3
    /\ Cardinality(DOMAIN name_map) = 2

\* a step of build_graph
BuildStep == ret'.op = "build_graph" /\ (builds' # builds \/ ret' # ret)

\* C26: build is one-shot.  Once a call of build_graph has returned Ok, a
\* further call, whatever it returns (Ok, or NameClash), leaves every layer
\* graph, name_map, path_map and the index maps as they were and the flag
\* true, and the files and the filters too: all that get_sorted_files computes
\* its list from, so that it returns after the call what it returned before.
C26_BuildOneShot ==
    [][(ever_ok /\ BuildStep) =>
           /\ name_map' = name_map
           /\ path_map' = path_map
           /\ graphs' = graphs
           /\ index_maps' = index_maps
           /\ graph_is_built /\ graph_is_built'
           /\ cvars' = cvars
           /\ (~ret'.res.ok => ret'.res.kind = "NameClash")]_vars

\* C26 witness: build_graph was called again on a built graph of three nodes
\* with an edge, and returned NameClash
C26_Witness ==
    /\ ever_ok
    /\ builds = 2
    /\ ret.op = "build_graph"
    /\ ret.res.kind = "NameClash"
    /\ graph_is_built
    /\ Cardinality(DOMAIN name_map) = 3
    /\ \E l \in LayerSet : graphs[l].edges # <<>>

\* build_graph was called again on a graph built of files without a name, and
\* returned Ok again
RebuiltWithoutNames ==
    /\ ever_ok
    /\ builds = 2
    /\ ret.op = "build_graph"
    /\ ret.res.ok
    /\ name_map = <<>>

(***************************************************************************)
(* Properties of the filtered output (specification SpecFilter)            *)
(***************************************************************************)
\* the paths of the nodes of a layer graph in the order StableTopo emits them
LayerPaths(l) ==
    [i \in DOMAIN TopoOrder(graphs[l]) |->
        name_map[NodeWeight(graphs[l], TopoOrder(graphs[l])[i])].path]

\* the list of get_sorted_files with no filter configured: every node, layer
\* by layer
UnfilteredList == LayerPaths(Layers[1]) \o LayerPaths(Layers[2]) \o LayerPaths(Layers[3])

RECURSIVE IsSubsequence(_, _)
\* s is t with some of its entries removed
IsSubsequence(s, t) ==
    IF s = <<>> THEN TRUE
    ELSE IF t = <<>> THEN FALSE
    ELSE IF s[1] = t[1] THEN IsSubsequence(Tail(s), Tail(t))
    ELSE IsSubsequence(s, Tail(t))

\* the registered node of a path
NodeOfPath(p) == name_map[CHOOSE n \in DOMAIN name_map : name_map[n].path = p]

\* C27: filters never reorder.  On a built graph, the list get_sorted_files
\* returns under any subdirectory filter, include prefixes and exclude
\* prefixes is the list it returns with no filter configured with some of its
\* entries removed: no entry is moved, none occurs twice.
C27_FiltersNeverReorder ==
    SortedReturned =>
        /\ IsSubsequence(ret.res.val, UnfilteredList)
        /\ \A i, j \in DOMAIN ret.res.val : i # j => ret.res.val[i] # ret.res.val[j]
        /\ NoFilters => ret.res.val = UnfilteredList

\* C27 witness: under a subdirectory filter and a prefix filter the list holds
\* two of three nodes, a node and before it one it requires, which is outside
\* the subdirectory
C27_Witness ==
    /\ SortedReturned
    /\ subdir_filter # NoneOpt
    /\ include_node_prefixes # NoneOpt \/ exclude_node_prefixes # NoneOpt
    /\ Len(UnfilteredList) = 3
    /\ Len(ret.res.val) = 2
    /\ NodeOfPath(ret.res.val[1]).name \in NodeOfPath(ret.res.val[2]).deps
    /\ ~StartsWith(ret.res.val[1], subdir_filter)

(***************************************************************************)
(* Termination of StableTopo (specification SpecTopoFair)                  *)
(***************************************************************************)
\* what next() has returned so far: no more items than the graph has nodes, no
\* node twice, and every direct predecessor of a returned node before it
BoundedEmission ==
    /\ Len(emitted) <= Len(tgraph.nodes)
    /\ \A i, j \in DOMAIN emitted : i # j => emitted[i] # emitted[j]
    /\ \A j \in DOMAIN emitted : \A e \in EdgeSet(tgraph) :
           e[2] = emitted[j] => \E i \in 1..(j - 1) : emitted[i] = e[1]

\* a call of next() returns one more node or None, and None once it has
\* returned None
NoneStaysNone ==
    /\ emitted' = emitted \/ (\E x \in DOMAIN tgraph.nodes : emitted' = Append(emitted, x))
    /\ emitted' = emitted => exhausted'
    /\ exhausted => emitted' = emitted /\ exhausted'

\* C28: StableTopo always terminates.  On every graph, with cycles, self-loops
\* and parallel edges or without, next() has returned None after at most as
\* many nodes as the graph has; it returns no node twice and no node before
\* one of its direct predecessors; and once it has returned None it returns
\* None on every later call.
C28_StableTopoTerminates ==
    /\ []BoundedEmission
    /\ [][NoneStaysNone]_vars
    /\ <>exhausted

\* C28 witness: next() has returned None on a cyclic graph of three nodes with
\* parallel edges, after one node or two
C28_Witness ==
    /\ exhausted
    /\ IsCyclicDirected(tgraph)
    /\ Len(tgraph.nodes) = 3
    /\ \E i, j \in DOMAIN tgraph.edges : i # j /\ tgraph.edges[i] = tgraph.edges[j]
    /\ emitted # <<>>
    /\ Len(emitted) < 3

\* next() has returned None at its first call: every node of the graph has an
\* incoming edge
NothingEmitted ==
    /\ exhausted
    /\ emitted = <<>>
    /\ \E a \in DOMAIN tgraph.nodes : <<a, a>> \in EdgeSet(tgraph)

====
